---- MODULE Spec2Model ----
(***************************************************************************)
(* Model of the frame-synchronised coordination layer of gfaestus:         *)
(*   - UIState / UIThread     (src/src/ui.rs): camera animation state, the  *)
(*     command queue and the single-slot view channel;                     *)
(*   - ContextMgr             (src/src/context.rs): lifecycle, producer     *)
(*     channel, frame context, registered actions;                         *)
(*   - OverlayCreator         (src/src/gui/windows/overlays.rs): the script *)
(*     task polled once per frame;                                         *)
(*   - pan-to-node modal task (src/src/context.rs).                         *)
(*                                                                         *)
(* f32 quantities are fixed-point integers: lengths, scales and velocities  *)
(* in hundredths (Unit), times in milliseconds (TimeUnit).  Products are    *)
(* truncated towards zero.                                                 *)
(***************************************************************************)
EXTENDS Integers, Sequences, FiniteSets, TLC

\* ------------------------------------------------------------------------
\* Fixed-point arithmetic
\* ------------------------------------------------------------------------

\* one unit of length / scale / velocity is 1/Unit
Unit == 100

\* one unit of time is 1/TimeUnit second
TimeUnit == 1000

\* internal precision of the power function
PowPrec == 10000

Abs(a) == IF a < 0 THEN -a ELSE a

MaxOf(a, b) == IF a >= b THEN a ELSE b

MinOf(a, b) == IF a <= b THEN a ELSE b

\* division truncating towards zero (b > 0)
TruncDiv(a, b) == IF a >= 0 THEN a \div b ELSE -((-a) \div b)

\* product of two values in 1/Unit
Mul(a, b) == TruncDiv(a * b, Unit)

\* product of a time (1/TimeUnit) and a value (1/Unit): a value in 1/Unit
MulT(t, a) == TruncDiv(t * a, TimeUnit)

\* 10^(t/TimeUnit) in 1/PowPrec, for t >= 0: decimal decomposition of the
\* exponent, 10^0.1 = 1.2589, 10^0.01 = 1.0233, 10^0.001 = 1.0023
RECURSIVE TenPow(_)
TenPow(t) ==
    IF t >= 1000 THEN 10 * TenPow(t - 1000)
    ELSE IF t >= 100 THEN (12589 * TenPow(t - 100)) \div PowPrec
    ELSE IF t >= 10 THEN (10233 * TenPow(t - 10)) \div PowPrec
    ELSE IF t >= 1 THEN (10023 * TenPow(t - 1)) \div PowPrec
    ELSE PowPrec

\* a power term that vanishes, leaving a friction factor of 1
PowVanishes(t) == 0

\* 10.0_f32.powf(t - 1.0), in 1/Unit
Pow10Minus1(t) == ((TenPow(t) \div 10) * Unit) \div PowPrec

\* number of halvings that bring x below 2.0
RECURSIVE Log2Int(_)
Log2Int(x) == IF x >= 2 * Unit THEN 1 + Log2Int(x \div 2) ELSE 0

\* x / 2^n
RECURSIVE Halve(_, _)
Halve(x, n) == IF n = 0 THEN x ELSE Halve(x \div 2, n - 1)

\* fractional bits of log2(y), y in [1.0, 2.0): square, and take the bit
\* when the square reaches 2.0
RECURSIVE Log2Frac(_, _)
Log2Frac(y, w) ==
    IF w = 0 THEN 0
    ELSE LET y2 == Mul(y, y)
         IN IF y2 >= 2 * Unit
            THEN w + Log2Frac(y2 \div 2, w \div 2)
            ELSE Log2Frac(y2, w \div 2)

\* f32::log2 followed by .max(1.0): for x below 2.0 (and for the NaN of a
\* non-positive x, which f32::max discards) the result is 1.0
Log2Max1(x) ==
    IF x < 2 * Unit THEN Unit
    ELSE LET n == Log2Int(x)
         IN MaxOf(n * Unit + Log2Frac(Halve(x, n), Unit \div 2), Unit)

\* ------------------------------------------------------------------------
\* UIState (src/src/ui.rs)
\* ------------------------------------------------------------------------

Point(px, py) == [x |-> px, y |-> py]

\* the floor of view.scale applied by update_anim
MinScale == 50

\* max_speed of UICmd::Pan
MaxSpeed == 60000

\* the scale_delta snap threshold 0.00001, as a denominator
SnapDenom == 100000

\* UIState::new(width, height)
UIStateNew(w, h) ==
    [ anim |-> [ view_const_delta |-> Point(0, 0),
                 view_delta       |-> Point(0, 0),
                 scale_delta      |-> 0 ],
      view |-> [ center |-> Point(0, 0), scale |-> Unit,
                 width |-> w, height |-> h ] ]

\* the scale left unclamped
ClampScaleNone(x) == x

\* self.view.scale.max(0.5)
ClampScale(x) == MaxOf(x, MinScale)

\* UIState::update_anim(t)
update_anim(s, t) ==
    LET zoom_friction == Unit - Pow10Minus1(t)
        pan_friction  == Unit - Pow10Minus1(t)
        dx == s.anim.view_delta.x + s.anim.view_const_delta.x
        dy == s.anim.view_delta.y + s.anim.view_const_delta.y
        dz == s.anim.scale_delta
        scale1 == ClampScale(s.view.scale + MulT(t, dz))
        cx == s.view.center.x + Mul(MulT(t, dx), scale1)
        cy == s.view.center.y + Mul(MulT(t, dy), scale1)
        vd == Point(Mul(s.anim.view_delta.x, pan_friction),
                    Mul(s.anim.view_delta.y, pan_friction))
        sd == Mul(s.anim.scale_delta, zoom_friction)
        sd1 == IF Abs(sd) * SnapDenom < Unit THEN 0 ELSE sd
    IN [ anim |-> [ view_const_delta |-> s.anim.view_const_delta,
                    view_delta       |-> vd,
                    scale_delta      |-> sd1 ],
         view |-> [ center |-> Point(cx, cy), scale |-> scale1,
                    width |-> s.view.width, height |-> s.view.height ] ]

\* UICmd::PanConstant
ApplyPanConstant(s, delta) ==
    LET vx == IF delta.x = 0 THEN s.anim.view_const_delta.x
                             ELSE s.anim.view_delta.x
        vy == IF delta.y = 0 THEN s.anim.view_const_delta.y
                             ELSE s.anim.view_delta.y
    IN [s EXCEPT !.anim.view_delta = Point(vx, vy),
                 !.anim.view_const_delta = delta]

\* UICmd::Pan without the speed limit
ApplyPanUnclamped(s, delta) ==
    [s EXCEPT !.anim.view_delta =
        Point(s.anim.view_delta.x + delta.x, s.anim.view_delta.y + delta.y)]

\* UICmd::Pan
ApplyPan(s, delta) ==
    LET sx == s.anim.view_delta.x + delta.x
        sy == s.anim.view_delta.y + delta.y
    IN [s EXCEPT !.anim.view_delta =
            Point(MinOf(MaxOf(sx, -MaxSpeed), MaxSpeed),
                  MinOf(MaxOf(sy, -MaxSpeed), MaxSpeed))]

\* UICmd::Zoom
ApplyZoom(s, delta) ==
    LET delta_mult == Log2Max1(s.view.scale)
    IN [s EXCEPT !.anim.scale_delta = @ + Mul(delta, delta_mult)]

\* UICmd::SetCenter
ApplySetCenter(s, center) ==
    [s EXCEPT !.anim.view_delta = Point(0, 0),
              !.anim.scale_delta = 0,
              !.view.center = center]

\* UICmd::SetScale without the momentum reset
ApplySetScaleKeepMomentum(s, scale) ==
    [s EXCEPT !.view.scale = scale]

\* UICmd::SetScale
ApplySetScale(s, scale) ==
    [s EXCEPT !.anim.view_delta = Point(0, 0),
              !.anim.scale_delta = 0,
              !.view.scale = scale]

\* UICmd::Resize
ApplyResize(s, w, h) ==
    [s EXCEPT !.view.width = w, !.view.height = h]

\* a UICmd value: kind and up to two f32 payload components
Cmd(k, pa, pb) == [kind |-> k, a |-> pa, b |-> pb]

\* UIState::apply_cmd(cmd)
apply_cmd(s, cmd) ==
    CASE cmd.kind = "PanConstant" -> ApplyPanConstant(s, Point(cmd.a, cmd.b))
      [] cmd.kind = "Pan"         -> ApplyPan(s, Point(cmd.a, cmd.b))
      [] cmd.kind = "Zoom"        -> ApplyZoom(s, cmd.a)
      [] cmd.kind = "SetCenter"   -> ApplySetCenter(s, Point(cmd.a, cmd.b))
      [] cmd.kind = "SetScale"    -> ApplySetScale(s, cmd.a)
      [] cmd.kind = "Resize"      -> ApplyResize(s, cmd.a, cmd.b)

\* ------------------------------------------------------------------------
\* Bounds and inputs of the camera model
\* ------------------------------------------------------------------------

\* number of apply_cmd / update_anim calls explored on one UIState
MaxUIOps == 4

\* loop iterations of the animation thread explored
MaxIters == 3

\* commands that may wait in the command channel
MaxQueue == 2

\* commands sent on the command channel in one run
MaxSent == 3

\* window size (width, height) handed to UIThread::new
InitDims == <<80000, 60000>>

\* elapsed times handed to update_anim (ms)
TimeSteps == {0, 7, 1000}

\* elapsed wall time measured by one loop iteration of the thread (ms)
Deltas == {0, 3, 1000}

CmdInputs ==
    { Cmd("PanConstant", 0, 0), Cmd("PanConstant", 100, 0),
      Cmd("Pan", 70000, -70000), Cmd("Pan", -10000, 0),
      Cmd("Zoom", -300, 0), Cmd("Zoom", 200, 0),
      Cmd("SetCenter", 1000, 1000),
      Cmd("SetScale", 25, 0), Cmd("SetScale", 200, 0), Cmd("SetScale", 800, 0),
      Cmd("Resize", 102400, 76800) }

\* commands sent to the animation thread through its channel
ThreadCmds ==
    { Cmd("SetScale", 200, 0), Cmd("Zoom", -300, 0),
      Cmd("Resize", 102400, 76800), Cmd("Resize", 64000, 48000) }

\* (TypeId, value) messages that may wait in the producer channel
MaxChan == 2

\* the TypeIds of the known context kinds
TypeIds == {"NodeId", "PathId", "Selection"}

\* (TypeId, value) pairs the producers send
ProduceInputs == { <<"NodeId", 1>>, <<"NodeId", 2>>, <<"PathId", 1>> }

\* (TypeId, value) pairs the producers send while the menu is explored
MenuProduceInputs == { <<"NodeId", 1>>, <<"PathId", 1>> }

\* (name, required TypeIds) pairs handed to register_action
RegInputs ==
    { <<"debug", {}>>, <<"copy_node_id", {"NodeId"}>>,
      <<"node_path", {"NodeId", "PathId"}>>, <<"debug", {"PathId"}>>,
      <<"pan_to_node", {}>> }

\* script tasks submitted by the overlay creator
MaxTasks == 2

Tasks == 1..MaxTasks

\* results a script task can finish with: Ok, an io::Error of kind
\* NotFound, another io::Error, a gluon::Error, any other error
Outcomes == {"Ok", "IoNotFound", "IoOther", "Gluon", "Other"}

\* pan-to-node invocations
MaxRequests == 1

\* messages waiting in one of the input queues of the frame loop
MaxIn == 1

Requests == 1..MaxRequests

\* characters typed into the modal's text box
MaxText == 2

\* the characters the user types
Chars == {"4", "2", "a", "+", "-"}

\* node ids of the loaded graph
GraphNodes == {4, 42}

\* no text: the None of Option<String>
NoValue == <<"None">>

NoView == [center |-> Point(0, 0), scale |-> 0, width |-> 0, height |-> 0]

\* ------------------------------------------------------------------------
\* State
\* ------------------------------------------------------------------------

VARIABLES
    ui_state,          \* UIState owned by the animation thread
    ui_ops,            \* number of operations applied to ui_state
    ui_last,           \* the last operation: "new", "update" or a command kind
    ui_last_t,         \* elapsed time of the last update_anim (-1: none yet)
    pinned_scale,      \* scale of the last SetScale not followed by a Zoom
                       \* or another SetScale (-1: none)
    cmd_chan,          \* tx_chan / rx_chan: unbounded command channel
    view_chan,         \* view_tx / view_rx: channel::bounded(1)
    since_last_update, \* the thread's accumulator (ms)
    thread_pc,         \* position in the thread's loop body
    iters,             \* completed loop iterations
    latest_view,       \* the view of ui_state at the last publish step
    read_view,         \* the view the consumer received last
    read_latest,       \* latest_view at the time of that receive
    reads,             \* number of views the consumer has received
    sent_log,          \* the commands sent on tx_chan, in send order
    applied_log,       \* the commands the thread applied, in order
    view_rx_alive,     \* the Receiver<View> has not been dropped
    cmd_tx_alive,      \* the Sender<UICmd> has not been dropped
    init,              \* ContextMgr.init: InitState
    load_context_this_frame,
    context_menu_open,
    popup_open,        \* egui memory: the context-menu popup is open
    ctx_chan,          \* ctx_tx / ctx_rx: unbounded (TypeId, CtxVal) channel
    frame_context,     \* Context.values: TypeId -> value
    context_actions,   \* registered actions: name -> required TypeIds
    offered,           \* buttons rendered by show in the current frame
    menu_rendered,     \* the last show of the current frame rendered the popup
    invoked,           \* action applied by show in the current frame
    last_ctx_op,       \* the last ContextMgr operation called
    ever_flagged,      \* load_context_this_frame has been raised
    sent_since_raise,  \* TypeIds sent by producers since the last raise
    materialized,      \* the last begin_frame materialized the context
    drained,           \* messages received by the last materialization
    loads_this_opening, \* materializations since the menu was last opened
                       \* from closed (reset when it is closed)
    prod_evaluated,    \* the last ContextMgr operation ran a producer closure
    script_query,      \* OverlayCreator.script_query: 0 (None) or a task
    next_task,         \* number of script tasks submitted so far
    task_state,        \* AsyncResult state of each task's handle
    task_done,         \* worker side of each task: "none", "running" or
                       \* the outcome of the finished script
    script_error,      \* OverlayCreator.script_error
    creator_name,      \* OverlayCreator.name
    script_path_input, \* OverlayCreator.script_path_input
    overlay_chan,      \* new_overlay_tx / new_overlay_rx
    handled,           \* times the ui handled a result of each task
    readied,           \* Pending -> Ready transitions of each handle
    dropped_file,      \* OverlayCreator.dropped_file: "" (None) or a path
    modal_state,       \* per pan-to-node request: state of its modal
    modal_text,        \* the modal's text buffer
    first_run,         \* the callback's first_run cell
    result_chan,       \* result_tx / result_rx buffer of the request
    sender_alive,      \* result_tx has not been dropped
    task_pc,           \* the spawned task: "none", "waiting" or "done"
    recv_value,        \* what the task's receive yielded
    committed,         \* the text committed in the modal
    sent_by,           \* node ids the task of each request sent
    app_chan,          \* app_tx / app_rx: application messages
    frame_pc,          \* the render thread's position in the frame loop
    cfg_chan,          \* cfg_msg_tx / cfg_msg_rx: AppConfigMsg queue
    mv_chan,           \* main_view_msg_tx / main_view_msg_rx
    frame_steps,       \* the steps the current frame has gone through
    left_at_drain_end, \* what the app, config and main-view queues held
                       \* when the current frame's drains ended
    enq_by_handlers,   \* messages the handlers run by the current frame's
                       \* drains have sent
    dirty_swapchain,   \* main.rs line 213: the swapchain must be recreated
    inner_size,        \* window.inner_size(): <<width, height>>
    in_chans,          \* messages waiting on winit_rx, on the input
                       \* manager's app_rx, gui_rx and main_view_rx
                       \* and on gui_msg_rx
    path_list,         \* the PathList window (built: PathList::new has run)
    step_list,         \* the StepList of the path details window
    page_changed,      \* the last PathList operation changed the page
    apply_result,      \* the last direct call of ContextAction_::apply_action
    menu_rx,           \* ContextMenu.tx / rx: ContextEntry values in flight
    contexts,          \* ContextMenu.contexts (an Option is a set of at most
                       \* one element)
    last_drain,        \* the entries received by the last recv_contexts
    latest_selection,  \* LayoutFlags.latest_selection
    buffer,            \* the node flag buffer handed to LayoutFlags
    flags_last         \* the last LayoutFlags call and what it returned

uiVars == <<ui_state, ui_ops, ui_last, ui_last_t, pinned_scale>>

cmdLog == <<sent_log, applied_log>>

\* the ends of the two channels that UIThread::new returns to its caller
endsAlive == <<view_rx_alive, cmd_tx_alive>>

threadVars == <<cmd_chan, view_chan, since_last_update, thread_pc, iters,
                latest_view, read_view, read_latest, reads, cmdLog,
                endsAlive>>

ctxVars == <<init, load_context_this_frame, context_menu_open, popup_open,
             ctx_chan, frame_context, context_actions, offered,
             menu_rendered, invoked, last_ctx_op, ever_flagged,
             sent_since_raise, materialized, drained, prod_evaluated,
             loads_this_opening>>

taskVars == <<script_query, next_task, task_state, task_done, script_error,
              creator_name, script_path_input, overlay_chan, handled,
              readied, dropped_file>>

modalVars == <<modal_state, modal_text, first_run, result_chan, sender_alive,
               task_pc, recv_value, committed, sent_by, app_chan>>

modalRest == <<modal_state, modal_text, first_run, result_chan,
               sender_alive, task_pc, recv_value, committed, sent_by>>

taskRest == <<script_query, next_task, task_state, task_done, script_error,
              creator_name, script_path_input, handled, readied,
              dropped_file>>

swapVars == <<dirty_swapchain, inner_size>>

frameVars == <<frame_pc, cfg_chan, mv_chan, frame_steps, left_at_drain_end,
               enq_by_handlers, swapVars, in_chans>>

pathVars == <<path_list, step_list, page_changed>>

actionVars == <<apply_result>>

menuVars == <<menu_rx, contexts, last_drain>>

flagVars == <<latest_selection, buffer, flags_last>>

\* the components explored on their own: apply_action called directly,
\* the ContextMenu snapshot and LayoutFlags
sideVars == <<actionVars, menuVars, flagVars>>

vars == <<uiVars, threadVars, ctxVars, taskVars, modalVars, frameVars,
          pathVars, sideVars>>

InitUI ==
    /\ ui_state = UIStateNew(InitDims[1], InitDims[2])
    /\ ui_ops = 0
    /\ ui_last = "new"
    /\ ui_last_t = -1
    /\ pinned_scale = -1

InitThread ==
    /\ cmd_chan = <<>>
    /\ view_chan = <<>>
    /\ since_last_update = 0
    /\ thread_pc = "measure"
    /\ iters = 0
    /\ latest_view = NoView
    /\ read_view = NoView
    /\ read_latest = NoView
    /\ reads = 0
    /\ sent_log = <<>>
    /\ view_rx_alive = TRUE
    /\ cmd_tx_alive = TRUE
    /\ applied_log = <<>>

\* the empty Context.values
EmptyMap == [k \in {} |-> 0]

\* load_context_this_frame starting raised
DefaultLoadFlagRaised == TRUE

\* ContextMgr::default: load_context_this_frame: Arc::new(false.into())
DefaultLoadFlag == FALSE

\* ContextMgr::default()
InitCtx ==
    /\ init = "Null"
    /\ load_context_this_frame = DefaultLoadFlag
    /\ context_menu_open = FALSE
    /\ popup_open = FALSE
    /\ ctx_chan = <<>>
    /\ frame_context = EmptyMap
    /\ context_actions = EmptyMap
    /\ offered = {}
    /\ menu_rendered = FALSE
    /\ invoked = "none"
    /\ last_ctx_op = "default"
    /\ ever_flagged = FALSE
    /\ sent_since_raise = {}
    /\ materialized = FALSE
    /\ drained = <<>>
    /\ loads_this_opening = 0
    /\ prod_evaluated = FALSE

\* OverlayCreator::new
InitTask ==
    /\ script_query = 0
    /\ next_task = 0
    /\ task_state = [t \in Tasks |-> "Pending"]
    /\ task_done = [t \in Tasks |-> "none"]
    /\ script_error = ""
    /\ creator_name = ""
    /\ script_path_input = ""
    /\ overlay_chan = <<>>
    /\ handled = [t \in Tasks |-> 0]
    /\ readied = [t \in Tasks |-> 0]
    /\ dropped_file = ""

\* no pan-to-node request has been made
InitModal ==
    /\ modal_state = [r \in Requests |-> "Idle"]
    /\ modal_text = [r \in Requests |-> <<>>]
    /\ first_run = [r \in Requests |-> TRUE]
    /\ result_chan = [r \in Requests |-> <<>>]
    /\ sender_alive = [r \in Requests |-> FALSE]
    /\ task_pc = [r \in Requests |-> "none"]
    /\ recv_value = [r \in Requests |-> NoValue]
    /\ committed = [r \in Requests |-> NoValue]
    /\ sent_by = [r \in Requests |-> <<>>]
    /\ app_chan = <<>>

\* the PathList before PathList::new
NoPathList ==
    [ built |-> FALSE, n |-> 0, page |-> 0, page_size |-> 0,
      page_count |-> 0, slots |-> <<>>, update_slots |-> FALSE,
      page_start |-> 0, page_end |-> 0, last |-> "none" ]

\* no message waits in any queue
NoneLeft == [app |-> <<>>, cfg |-> <<>>, mv |-> <<>>]

\* the queues whose messages the model counts: winit_rx (main.rs lines
\* 137-138), the input manager's app_rx, gui_rx and main_view_rx (lines
\* 142-144) and gui_msg_rx
InQueues == {"winit", "app_in", "gui_in", "main_view_in", "gui_msg"}

\* the event loop is about to deliver its first Event::NewEvents; lines
\* 261-265 have sent the theme on gui_msg_tx
InitFrame ==
    /\ in_chans = [q \in InQueues |-> IF q = "gui_msg" THEN 1 ELSE 0]
    /\ frame_pc = "new_events"
    /\ cfg_chan = <<>>
    /\ mv_chan = <<>>
    /\ frame_steps = <<>>
    /\ left_at_drain_end = NoneLeft
    /\ enq_by_handlers = 0
    /\ dirty_swapchain = FALSE
    /\ inner_size = <<1, 1>>

\* PathDetails::default (line 118): the page size of the step list
StepPageSize == 15

\* lines 444-454: StepList::new; steps is the number of steps held, and
\* fetched_path_id 0 is None
StepListNew(page_size) ==
    [ steps |-> 0, page |-> 0, page_size |-> page_size, page_count |-> 0,
      fetched_path_id |-> 0, page_start |-> 0, page_end |-> 0 ]

InitPaths ==
    /\ path_list = NoPathList
    /\ step_list = StepListNew(StepPageSize)
    /\ page_changed = FALSE

\* no apply_action call yet
NoApply == [name |-> "none", ret |-> "none", ran |-> FALSE,
            panicked |-> FALSE]

InitAction == apply_result = NoApply

\* line 669 and #[derive(Default)]: Contexts::default()
ContextsDefault ==
    [node |-> {}, path |-> {}, has_selection |-> FALSE,
     selection_nodes |-> {}]

\* lines 702-717: ContextMenu::new
InitContextMenu ==
    /\ menu_rx = <<>>
    /\ contexts = ContextsDefault
    /\ last_drain = <<>>

\* number of nodes of the graph, the length of the flag buffer
NodeCount == 3

\* LayoutFlags::default() and a zeroed buffer of one u32 per node
InitFlags ==
    /\ latest_selection = {}
    /\ buffer = [ix \in 0..(NodeCount - 1) |-> 0]
    /\ flags_last = [op |-> "new", ok |-> TRUE]

Init ==
    /\ InitUI
    /\ InitThread
    /\ InitCtx
    /\ InitTask
    /\ InitModal
    /\ InitFrame
    /\ InitPaths
    /\ InitAction
    /\ InitContextMenu
    /\ InitFlags

\* the scale a SetScale pins until the next Zoom or SetScale
PinAfter(cmd, pin) ==
    IF cmd.kind = "SetScale" THEN cmd.a
    ELSE IF cmd.kind = "Zoom" THEN -1
    ELSE pin

\* ------------------------------------------------------------------------
\* UIState driven directly
\* ------------------------------------------------------------------------

\* one call of UIState::apply_cmd
ApplyCmd(cmd) ==
    /\ ui_ops < MaxUIOps
    /\ ui_state' = apply_cmd(ui_state, cmd)
    /\ ui_ops' = ui_ops + 1
    /\ ui_last' = cmd.kind
    /\ pinned_scale' = PinAfter(cmd, pinned_scale)
    /\ UNCHANGED <<ui_last_t, threadVars, ctxVars, taskVars, modalVars,
                   frameVars, pathVars, sideVars>>

\* one call of UIState::update_anim
UpdateAnim(t) ==
    /\ ui_ops < MaxUIOps
    /\ ui_state' = update_anim(ui_state, t)
    /\ ui_ops' = ui_ops + 1
    /\ ui_last' = "update"
    /\ ui_last_t' = t
    /\ UNCHANGED <<pinned_scale, threadVars, ctxVars, taskVars, modalVars,
                   frameVars, pathVars, sideVars>>

NextUI ==
    \/ \E cmd \in CmdInputs : ApplyCmd(cmd)
    \/ \E t \in TimeSteps : UpdateAnim(t)

SpecUI == Init /\ [][NextUI]_vars

\* ------------------------------------------------------------------------
\* UIThread (src/src/ui.rs): the loop body in three steps
\* ------------------------------------------------------------------------

\* a tick test that passes on every iteration
TickDueAlways(acc) == TRUE

\* the tick test  since_last_update > 1.0 / 144.0
TickDue(acc) == acc * 144 > TimeUnit

\* lines 34-42: measure the elapsed time, integrate when a tick is due
ThreadMeasure(delta) ==
    /\ thread_pc = "measure"
    /\ iters < MaxIters
    /\ LET acc == since_last_update + delta
       IN IF TickDue(acc)
          THEN /\ ui_state' = update_anim(ui_state, acc)
               /\ since_last_update' = 0
               /\ ui_last' = "update"
               /\ ui_last_t' = acc
          ELSE /\ since_last_update' = acc
               /\ UNCHANGED <<ui_state, ui_last, ui_last_t>>
    /\ thread_pc' = "recv"
    /\ UNCHANGED <<ui_ops, pinned_scale, cmd_chan, view_chan, iters,
                   latest_view, read_view, read_latest, reads, cmdLog,
                   endsAlive, ctxVars, taskVars, modalVars, frameVars,
                   pathVars, sideVars>>

\* a receive that takes the newest message of the channel
TryRecvNewest(chan) ==
    [cmd |-> chan[Len(chan)], rest |-> SubSeq(chan, 1, Len(chan) - 1)]

\* rx_chan.try_recv() on a non-empty channel: the oldest message, and the
\* channel without it
TryRecv(chan) == [cmd |-> Head(chan), rest |-> Tail(chan)]

\* lines 44-46: if let Ok(cmd) = rx_chan.try_recv() { apply_cmd(cmd) }
ThreadRecv ==
    /\ thread_pc = "recv"
    /\ IF cmd_chan # <<>>
       THEN LET got == TryRecv(cmd_chan)
            IN /\ ui_state' = apply_cmd(ui_state, got.cmd)
               /\ cmd_chan' = got.rest
               /\ ui_last' = got.cmd.kind
               /\ pinned_scale' = PinAfter(got.cmd, pinned_scale)
               /\ applied_log' = Append(applied_log, got.cmd)
       ELSE UNCHANGED <<ui_state, cmd_chan, ui_last, pinned_scale,
                        applied_log>>
    /\ thread_pc' = "publish"
    /\ UNCHANGED <<ui_ops, ui_last_t, view_chan, since_last_update, iters,
                   latest_view, read_view, read_latest, reads, sent_log,
                   endsAlive, ctxVars, taskVars, modalVars, frameVars,
                   pathVars, sideVars>>

\* channel::bounded::<View>(1)
ViewCap == 1

\* the thread sends whatever the slot holds
WouldSendAlways(chan) == TRUE

\* line 48: view_tx.is_empty()
WouldSend(chan) == chan = <<>>

\* Sender::send on the bounded channel returns once the buffer has room;
\* until then the caller is blocked
SendCompletes(chan) == WouldSend(chan) => Len(chan) < ViewCap

\* lines 48-50: if view_tx.is_empty() { view_tx.send(view) }
SlotAfterPublish(chan, view) ==
    IF WouldSend(chan) THEN Append(chan, view) ELSE chan

\* line 49: Sender::send returns Err once every Receiver has been dropped,
\* and unwrap panics on it
SendPanics(chan, rx_alive) == WouldSend(chan) /\ ~rx_alive

\* the panic unwinds the closure of line 28 and drops rx_chan, the only
\* Receiver<UICmd>: the commands still queued stay unread, or are discarded
\* by the disconnect
QueueAfterPanic(chan) == {chan, <<>>}

ThreadPublish ==
    /\ thread_pc = "publish"
    /\ SendCompletes(view_chan)
    /\ IF SendPanics(view_chan, view_rx_alive)
       THEN /\ thread_pc' = "panicked"
            /\ cmd_chan' \in QueueAfterPanic(cmd_chan)
            /\ UNCHANGED <<view_chan, latest_view, iters>>
       ELSE /\ view_chan' = SlotAfterPublish(view_chan, ui_state.view)
            /\ latest_view' = ui_state.view
            /\ iters' = iters + 1
            /\ thread_pc' = "measure"
            /\ UNCHANGED cmd_chan
    /\ UNCHANGED <<uiVars, since_last_update,
                   read_view, read_latest, reads, cmdLog, endsAlive, ctxVars,
                   taskVars, modalVars, frameVars, pathVars, sideVars>>

\* tx_chan.send(cmd) returns Err(SendError(cmd)) once rx_chan is gone, which
\* happens when the thread has panicked (rx_chan lives in its closure)
SendFails(pc) == pc = "panicked"

\* a holder of the command sender enqueues a command; a send that fails
\* enqueues nothing
SendCmd(cmd) ==
    /\ cmd_tx_alive
    /\ Len(cmd_chan) < MaxQueue
    /\ Len(sent_log) < MaxSent
    /\ IF SendFails(thread_pc)
       THEN UNCHANGED <<cmd_chan, sent_log>>
       ELSE /\ cmd_chan' = Append(cmd_chan, cmd)
            /\ sent_log' = Append(sent_log, cmd)
    /\ UNCHANGED <<uiVars, view_chan, since_last_update, thread_pc, iters,
                   latest_view, read_view, read_latest, reads, applied_log,
                   endsAlive, ctxVars, taskVars, modalVars, frameVars,
                   pathVars, sideVars>>

\* the consumer receives from view_rx
ReadView ==
    /\ view_rx_alive
    /\ view_chan # <<>>
    /\ read_view' = Head(view_chan)
    /\ read_latest' = latest_view
    /\ reads' = IF reads < 2 THEN reads + 1 ELSE reads
    /\ view_chan' = <<>>
    /\ UNCHANGED <<uiVars, cmd_chan, since_last_update, thread_pc, iters,
                   latest_view, cmdLog, endsAlive, ctxVars, taskVars,
                   modalVars, frameVars, pathVars, sideVars>>

NextThread ==
    \/ \E delta \in Deltas : ThreadMeasure(delta)
    \/ ThreadRecv
    \/ ThreadPublish
    \/ \E cmd \in ThreadCmds : SendCmd(cmd)
    \/ ReadView

SpecThread == Init /\ [][NextThread]_vars

\* what the slot holds once the last Receiver is gone: the pending View,
\* or nothing when the disconnect discards it
SlotsAfterDrop(chan) == {chan, <<>>}

\* the caller drops the Receiver<View>
DropViewRx ==
    /\ view_rx_alive
    /\ view_rx_alive' = FALSE
    /\ view_chan' \in SlotsAfterDrop(view_chan)
    /\ UNCHANGED <<uiVars, cmd_chan, since_last_update, thread_pc, iters,
                   latest_view, read_view, read_latest, reads, cmdLog,
                   cmd_tx_alive, ctxVars, taskVars, modalVars, frameVars,
                   pathVars, sideVars>>

\* the caller drops the Sender<UICmd>; try_recv then fails with
\* Disconnected once the queue is empty, which the if let ignores
DropCmdTx ==
    /\ cmd_tx_alive
    /\ cmd_tx_alive' = FALSE
    /\ UNCHANGED <<uiVars, cmd_chan, view_chan, since_last_update, thread_pc,
                   iters, latest_view, read_view, read_latest, reads, cmdLog,
                   view_rx_alive, ctxVars, taskVars, modalVars, frameVars,
                   pathVars, sideVars>>

\* the elapsed times and commands explored while the ends are dropped
DropDeltas == {3, 1000}

DropCmds == { Cmd("SetScale", 200, 0) }

NextThreadDrop ==
    \/ \E delta \in DropDeltas : ThreadMeasure(delta)
    \/ ThreadRecv
    \/ ThreadPublish
    \/ \E cmd \in DropCmds : SendCmd(cmd)
    \/ ReadView
    \/ DropViewRx
    \/ DropCmdTx

SpecThreadDrop == Init /\ [][NextThreadDrop]_vars

\* ------------------------------------------------------------------------
\* ContextMgr (src/src/context.rs)
\* ------------------------------------------------------------------------

\* HashMap::insert that keeps an existing entry
InsertIfAbsent(m, k, v) ==
    [x \in DOMAIN m \cup {k} |-> IF x \in DOMAIN m THEN m[x] ELSE v]

\* context.values.insert(type_id, ctx_val)
InsertCtx(m, k, v) ==
    [x \in DOMAIN m \cup {k} |-> IF x = k THEN v ELSE m[x]]

\* Receiver::recv on a queue of n messages: Ok(msg) once a message is
\* there; on an empty queue the caller waits for a sender
RecvOutcome(n) == IF n = 0 THEN "Wait" ELSE "Ok"

\* Receiver::try_recv on a queue of n messages: Ok(msg), or at once
\* Err(TryRecvError::Empty)
TryRecvOutcome(n) == IF n = 0 THEN "Empty" ELSE "Ok"

\* while let Ok(m) = rx.try_recv() { .. }: the loop is left when the
\* receive on the emptied queue returns its error
DrainEnds == TryRecvOutcome(0) = "Empty"

\* while let Ok((type_id, ctx_val)) = self.ctx_rx.try_recv() { insert }
RECURSIVE DrainInto(_, _)
DrainInto(m, chan) ==
    IF chan = <<>> THEN m
    ELSE DrainInto(InsertCtx(m, Head(chan).key, Head(chan).val), Tail(chan))

\* applicability by any one required TypeId
IsApplicableAny(req, ctx) == req = {} \/ \E r \in req : r \in DOMAIN ctx

\* ContextAction_::is_applicable
is_applicable(req, ctx) == \A r \in req : r \in DOMAIN ctx

\* ContextMgr::register_action(name, action)
register_action(name, req) ==
    /\ context_actions' = InsertCtx(context_actions, name, req)
    /\ last_ctx_op' = "register_action"
    /\ prod_evaluated' = FALSE
    /\ UNCHANGED <<init, load_context_this_frame, context_menu_open,
                   popup_open, ctx_chan, frame_context, offered,
                   menu_rendered, invoked, ever_flagged, sent_since_raise,
                   materialized, drained, loads_this_opening>>
    /\ UNCHANGED <<uiVars, threadVars, taskVars, modalVars, frameVars,
                   pathVars, sideVars>>

\* the producer runs whatever the flag says
ProducerRunsAlways(flag) == TRUE

\* line 449: if self.load_context_this_frame.load()
ProducerRuns(flag) == flag

\* ContextMgr::produce_context::<T, _>(prod), prod returning value v
produce_context(k, v) ==
    /\ Len(ctx_chan) < MaxChan
    /\ IF ProducerRuns(load_context_this_frame)
       THEN /\ ctx_chan' = Append(ctx_chan, [key |-> k, val |-> v])
            /\ sent_since_raise' = sent_since_raise \cup {k}
            /\ prod_evaluated' = TRUE
       ELSE /\ prod_evaluated' = FALSE
            /\ UNCHANGED <<ctx_chan, sent_since_raise>>
    /\ last_ctx_op' = "produce_context"
    /\ UNCHANGED <<init, load_context_this_frame, context_menu_open,
                   popup_open, frame_context, context_actions, offered,
                   menu_rendered, invoked, ever_flagged, materialized,
                   drained, loads_this_opening>>
    /\ UNCHANGED <<uiVars, threadVars, taskVars, modalVars, frameVars,
                   pathVars, sideVars>>

\* the load flag is raised by every call
RaisesLoadAlways(menu_open) == TRUE

\* line 465: if !self.context_menu_open.load()
RaisesLoad(menu_open) == ~menu_open

\* ContextMgr::open_context_menu
open_context_menu ==
    /\ popup_open' = TRUE
    /\ IF RaisesLoad(context_menu_open)
       THEN /\ load_context_this_frame' = TRUE
            /\ ever_flagged' = TRUE
            /\ sent_since_raise' = {}
       ELSE UNCHANGED <<load_context_this_frame, ever_flagged,
                        sent_since_raise>>
    /\ loads_this_opening' =
          IF context_menu_open THEN loads_this_opening ELSE 0
    /\ context_menu_open' = TRUE
    /\ last_ctx_op' = "open_context_menu"
    /\ prod_evaluated' = FALSE
    /\ UNCHANGED <<init, ctx_chan, frame_context, context_actions, offered,
                   menu_rendered, invoked, materialized, drained>>
    /\ UNCHANGED <<uiVars, threadVars, taskVars, modalVars, frameVars,
                   pathVars, sideVars>>

\* ContextMgr::close_context_menu
close_context_menu ==
    /\ load_context_this_frame' = FALSE
    /\ context_menu_open' = FALSE
    /\ last_ctx_op' = "close_context_menu"
    /\ prod_evaluated' = FALSE
    /\ loads_this_opening' = 0
    /\ UNCHANGED <<init, popup_open, ctx_chan, frame_context,
                   context_actions, offered, menu_rendered, invoked,
                   ever_flagged, sent_since_raise, materialized,
                   drained>>
    /\ UNCHANGED <<uiVars, threadVars, taskVars, modalVars, frameVars,
                   pathVars, sideVars>>

\* a first frame that goes straight to Ready
InitAfterFrameSkip(st) == "Ready"

\* lines 489-498: Null becomes Initializing, Initializing becomes Ready,
\* Ready stays
InitAfterFrame(st) == IF st = "Null" THEN "Initializing" ELSE "Ready"

\* the flag left raised by a materialization
FlagAfterLoadKept == TRUE

\* line 524: self.load_context_this_frame.store(false)
FlagAfterLoad == FALSE

\* ContextMgr::begin_frame.  A new frame also discards the widgets rendered
\* in the previous one.
begin_frame ==
    /\ init' = InitAfterFrame(init)
    /\ IF init = "Null"
       THEN /\ materialized' = FALSE
            /\ UNCHANGED <<load_context_this_frame, ctx_chan, frame_context,
                           drained, loads_this_opening>>
       ELSE /\ IF load_context_this_frame
               THEN /\ DrainEnds
                    /\ frame_context' = DrainInto(frame_context, ctx_chan)
                    /\ ctx_chan' = <<>>
                    /\ load_context_this_frame' = FlagAfterLoad
                    /\ materialized' = TRUE
                    /\ drained' = ctx_chan
                    /\ loads_this_opening' =
                          IF loads_this_opening < 2
                          THEN loads_this_opening + 1 ELSE 2
               ELSE /\ materialized' = FALSE
                    /\ UNCHANGED <<load_context_this_frame, ctx_chan,
                                   frame_context, drained,
                                   loads_this_opening>>
    /\ offered' = {}
    /\ menu_rendered' = FALSE
    /\ invoked' = "none"
    /\ last_ctx_op' = "begin_frame"
    /\ prod_evaluated' = FALSE
    /\ UNCHANGED <<context_menu_open, popup_open, context_actions,
                   ever_flagged, sent_since_raise>>
    /\ UNCHANGED <<uiVars, threadVars, taskVars, modalVars, frameVars,
                   pathVars, sideVars>>

\* the registered actions show renders a button for
Applicable ==
    { n \in DOMAIN context_actions :
        is_applicable(context_actions[n], frame_context) }

\* show going on in any lifecycle state
ShowProceedsAlways(st) == TRUE

\* line 575: matches!(self.init.load(), InitState::Ready)
ShowProceeds(st) == st = "Ready"

\* the request slot the next invocation takes: the first idle one
IsNextRequest(r) ==
    /\ modal_state[r] = "Idle"
    /\ \A q \in Requests : q < r => modal_state[q] # "Idle"

\* lines 304-352: the effect of pan_to_node_action queues the prepared
\* modal on modal_tx and spawns the task that awaits its result
PanToNodeEffect(r) ==
    /\ IsNextRequest(r)
    /\ modal_state' = [modal_state EXCEPT ![r] = "AwaitingInput"]
    /\ sender_alive' = [sender_alive EXCEPT ![r] = TRUE]
    /\ task_pc' = [task_pc EXCEPT ![r] = "waiting"]
    /\ UNCHANGED <<modal_text, first_run, result_chan, recv_value,
                   committed, sent_by, app_chan>>

\* the effects that queue a modal and spawn its task: lines 300-352
QueuesModal(name) == name = "pan_to_node"

\* ContextMgr::show; click: the button clicked ("none": no click; only a
\* rendered button can be clicked), close: Escape pressed or a click on or
\* outside the popup area.  Lines 607-610: the clicked action is applied
\* inside show, so its effect is part of the call.
show(click, close) ==
    /\ IF ~ShowProceeds(init)
       THEN /\ click = "none"
            /\ menu_rendered' = FALSE
            /\ UNCHANGED <<load_context_this_frame, context_menu_open,
                           popup_open, offered, invoked,
                           loads_this_opening, modalVars>>
       ELSE IF ~popup_open
       THEN /\ click = "none"
            /\ menu_rendered' = FALSE
            /\ UNCHANGED <<load_context_this_frame, context_menu_open,
                           popup_open, offered, invoked,
                           loads_this_opening, modalVars>>
       ELSE /\ click \in Applicable \cup {"none"}
            /\ offered' = { <<n, context_actions[n]>> : n \in Applicable }
            /\ menu_rendered' = TRUE
            /\ invoked' = click
            /\ IF click # "none" /\ QueuesModal(click)
               THEN \E r \in Requests : PanToNodeEffect(r)
               ELSE UNCHANGED modalVars
            /\ IF close
               THEN /\ load_context_this_frame' = FALSE
                    /\ context_menu_open' = FALSE
                    /\ popup_open' = FALSE
                    /\ loads_this_opening' = 0
               ELSE UNCHANGED <<load_context_this_frame, context_menu_open,
                                popup_open, loads_this_opening>>
    /\ last_ctx_op' = "show"
    /\ prod_evaluated' = FALSE
    /\ UNCHANGED <<init, ctx_chan, frame_context, context_actions,
                   ever_flagged, sent_since_raise, materialized,
                   drained>>
    /\ UNCHANGED <<uiVars, threadVars, taskVars, frameVars, pathVars,
                   sideVars>>

\* lines 888-914 of ContextMenu::show: the buttons rendered for a snapshot
MenuButtons(c) ==
    {"PanToNode"}
      \cup (IF c.node # {} THEN {"CopyNodeId", "CopyNodeSeq"} ELSE {})
      \cup (IF c.path # {} THEN {"CopyPathName"} ELSE {})
      \cup (IF c.has_selection THEN {"CopySubgraphGfa"} ELSE {})

\* lines 928-930: ContextMenu::open_context_menu opens the popup, whose id
\* (line 697) is the one ContextMgr uses (line 563), and touches no flag
ContextMenuOpen ==
    /\ popup_open' = TRUE
    /\ UNCHANGED <<init, load_context_this_frame, context_menu_open,
                   ctx_chan, frame_context, context_actions, offered,
                   menu_rendered, invoked, last_ctx_op, ever_flagged,
                   sent_since_raise, materialized, drained, prod_evaluated,
                   loads_this_opening>>
    /\ UNCHANGED <<uiVars, threadVars, taskVars, modalVars, frameVars,
                   pathVars, sideVars>>

\* lines 867-926: ContextMenu::show with one button clicked (or none) and
\* close: Escape pressed or a click on or outside the popup.  A clicked
\* button is processed and closes the popup; the flags of ContextMgr are
\* left as they are.
ContextMenuShow(click, close) ==
    /\ IF ~popup_open
       THEN /\ click = "none" /\ ~close
            /\ UNCHANGED <<popup_open, modalVars>>
       ELSE /\ click \in MenuButtons(contexts) \cup {"none"}
            /\ click # "none" => close
            /\ popup_open' = ~close
            /\ IF click = "PanToNode"
               THEN \E r \in Requests : PanToNodeEffect(r)
               ELSE UNCHANGED modalVars
    /\ UNCHANGED <<init, load_context_this_frame, context_menu_open,
                   ctx_chan, frame_context, context_actions, offered,
                   menu_rendered, invoked, last_ctx_op, ever_flagged,
                   sent_since_raise, materialized, drained, prod_evaluated,
                   loads_this_opening>>
    /\ UNCHANGED <<uiVars, threadVars, taskVars, frameVars, pathVars,
                   sideVars>>

\* the buttons of ContextMenu
MenuClicks ==
    {"none", "PanToNode", "CopyNodeId", "CopyNodeSeq", "CopyPathName",
     "CopySubgraphGfa"}

ActionNames == { p[1] : p \in RegInputs }

\* the materialization protocol: producers, menu flags and frames
NextCtx ==
    \/ \E p \in ProduceInputs : produce_context(p[1], p[2])
    \/ open_context_menu
    \/ close_context_menu
    \/ begin_frame

SpecCtx == Init /\ [][NextCtx]_vars

\* (name, required TypeIds) registered while the menu is explored: one
\* action for each of the required sets {}, {NodeId} and {NodeId, PathId}
MenuRegInputs ==
    RegInputs \ { <<"debug", {"PathId"}>>, <<"pan_to_node", {}>> }

\* the context menu: registration, frames, producers and show
NextMenu ==
    \/ \E p \in MenuRegInputs : register_action(p[1], p[2])
    \/ \E p \in MenuProduceInputs : produce_context(p[1], p[2])
    \/ open_context_menu
    \/ begin_frame
    \/ \E click \in ActionNames \cup {"none"}, close \in BOOLEAN :
          show(click, close)
    \/ ContextMenuOpen

SpecMenu == Init /\ [][NextMenu]_vars

\* (name, required TypeIds) registered while the lifecycle is explored
LifecycleRegInputs ==
    { <<"debug", {}>>, <<"copy_node_id", {"NodeId"}>>,
      <<"debug", {"NodeId"}>> }

\* (TypeId, value) pairs the producers send while the lifecycle is explored
LifecycleProduceInputs == { <<"NodeId", 1>> }

\* every operation of ContextMgr, in any order
NextLifecycle ==
    \/ \E p \in LifecycleRegInputs : register_action(p[1], p[2])
    \/ \E p \in LifecycleProduceInputs : produce_context(p[1], p[2])
    \/ open_context_menu
    \/ close_context_menu
    \/ begin_frame
    \/ \E click \in ActionNames \cup {"none"}, close \in BOOLEAN :
          show(click, close)
    \/ ContextMenuOpen
    \/ \E click \in MenuClicks, close \in BOOLEAN :
          ContextMenuShow(click, close)

SpecLifecycle == Init /\ [][NextLifecycle]_vars

\* ------------------------------------------------------------------------
\* ContextAction_::apply_action called directly (src/src/context.rs)
\* ------------------------------------------------------------------------

\* the effect runs whatever the context holds
ApplyRunsAlways(applicable) == TRUE

\* lines 104-106: if !self.is_applicable(ctx) { return None; }
ApplyRuns(applicable) == applicable

\* the TypeIds the effect of each action unwraps from the context: line 293
\* ctx.get::<NodeId>().unwrap() in copy_node_id_action; the effects of
\* debug_context_action and pan_to_node_action unwrap none
EffectReads(name) ==
    IF name = "copy_node_id" THEN {"NodeId"} ELSE {}

\* lines 98-115: what one call returns and does; the effect panics when it
\* unwraps a value the context does not hold
ApplyActionOf(name, req, ctx) ==
    LET runs == ApplyRuns(is_applicable(req, ctx))
        dies == runs /\ ~(EffectReads(name) \subseteq DOMAIN ctx)
    IN [ name     |-> name,
         ret      |-> IF ~runs THEN "None"
                      ELSE IF dies THEN "panic" ELSE "Some",
         ran      |-> runs,
         panicked |-> dies ]

\* the actions the source constructs, with their required TypeIds: lines
\* 270-273 debug_context_action, 291 copy_node_id_action, 302
\* pan_to_node_action
ApplyInputs ==
    { <<"debug", {}>>, <<"copy_node_id", {"NodeId"}>>,
      <<"pan_to_node", {}>> }

\* ContextAction_::apply_action on the current frame context; the effect
\* of pan_to_node, when it runs, takes the next request slot
apply_action(name, req) ==
    LET res == ApplyActionOf(name, req, frame_context)
    IN /\ apply_result' = res
       /\ IF res.ran /\ QueuesModal(name)
          THEN \E r \in Requests : PanToNodeEffect(r)
          ELSE UNCHANGED modalVars
       /\ UNCHANGED <<uiVars, threadVars, ctxVars, taskVars, frameVars,
                      pathVars, menuVars, flagVars>>

\* the action registered while apply_action is explored: the one whose
\* effect reaches beyond the call
ApplyRegInputs == { <<"pan_to_node", {}>> }

\* producers, menu flags and frames, with apply_action called at any
\* time, directly or by show on a registered action whose button is clicked
NextApply ==
    \/ \E a \in ApplyRegInputs : register_action(a[1], a[2])
    \/ \E p \in LifecycleProduceInputs : produce_context(p[1], p[2])
    \/ open_context_menu
    \/ close_context_menu
    \/ begin_frame
    \/ \E a \in ApplyInputs : apply_action(a[1], a[2])
    \/ \E click \in ActionNames \cup {"none"}, close \in BOOLEAN :
          show(click, close)

SpecApply == Init /\ [][NextApply]_vars

\* ------------------------------------------------------------------------
\* ContextMenu and its Contexts snapshot (src/src/context.rs)
\* ------------------------------------------------------------------------

\* ContextEntry values sent before one drain
MaxEntries == 2

\* lines 645-653: enum ContextEntry, as records of one shape
NodeEntry(n) == [kind |-> "Node", id |-> n, nodes |-> {}]

PathEntry(p) == [kind |-> "Path", id |-> p, nodes |-> {}]

SelectionEntry(ns) == [kind |-> "Selection", id |-> 0, nodes |-> ns]

\* the entries the senders produce
Entries ==
    { NodeEntry(1), NodeEntry(2), PathEntry(1), SelectionEntry({}),
      SelectionEntry({1}) }

\* the snapshot a drain starts from, were the previous one kept
DrainStartKept(old) == old

\* line 725: self.contexts = Default::default()
DrainStart(old) == ContextsDefault

\* lines 729-736: the match arms of recv_contexts
ApplyEntry(c, e) ==
    CASE e.kind = "Node" -> [c EXCEPT !.node = {e.id}]
      [] e.kind = "Path" -> [c EXCEPT !.path = {e.id}]
      [] e.kind = "Selection" ->
            [c EXCEPT !.selection_nodes = {e.nodes},
                      !.has_selection = TRUE]

\* lines 728-737: while let Ok(ctx) = self.rx.try_recv(), in channel order
RECURSIVE ReceiveAll(_, _)
ReceiveAll(c, chan) ==
    IF chan = <<>> THEN c
    ELSE ReceiveAll(ApplyEntry(c, Head(chan)), Tail(chan))

\* a hover or selection source sends through ContextMenu::tx()
ContextMenuSend(e) ==
    /\ Len(menu_rx) < MaxEntries
    /\ menu_rx' = Append(menu_rx, e)
    /\ UNCHANGED <<contexts, last_drain>>
    /\ UNCHANGED <<uiVars, threadVars, ctxVars, taskVars, modalVars,
                   frameVars, pathVars, actionVars, flagVars>>

\* ContextMenu::recv_contexts
recv_contexts ==
    /\ contexts' = ReceiveAll(DrainStart(contexts), menu_rx)
    /\ menu_rx' = <<>>
    /\ last_drain' = menu_rx
    /\ UNCHANGED <<uiVars, threadVars, ctxVars, taskVars, modalVars,
                   frameVars, pathVars, actionVars, flagVars>>

NextSnapshot ==
    \/ \E e \in Entries : ContextMenuSend(e)
    \/ recv_contexts
    \/ ContextMenuOpen
    \/ \E click \in MenuClicks, close \in BOOLEAN :
          ContextMenuShow(click, close)

SpecSnapshot == Init /\ [][NextSnapshot]_vars

\* ------------------------------------------------------------------------
\* LayoutFlags (src/src/app/node_flags.rs)
\* ------------------------------------------------------------------------

\* the NodeIds of the graph
Nodes == 1..NodeCount

\* lines 100, 136, 141: let ix = (node.0 - 1) as usize
FlagIx(node) == node - 1

\* line 113: NodeId::from((ix + 1) as u64)
NodeOfIx(ix) == ix + 1

\* what a call leaves in flags_last
FlagCall(op, ok) == [op |-> op, ok |-> ok]

\* lines 76-78: LayoutFlags::clear
clear ==
    /\ latest_selection' = {}
    /\ flags_last' = FlagCall("clear", TRUE)
    /\ UNCHANGED buffer
    /\ UNCHANGED <<uiVars, threadVars, ctxVars, taskVars, modalVars,
                   frameVars, pathVars, actionVars, menuVars>>

\* lines 80-91: LayoutFlags::clear_buffer; locked: buffer.write() fails
clear_buffer(locked) ==
    /\ buffer' = IF locked THEN buffer ELSE [ix \in DOMAIN buffer |-> 0]
    /\ flags_last' = FlagCall("clear_buffer", ~locked)
    /\ UNCHANGED latest_selection
    /\ UNCHANGED <<uiVars, threadVars, ctxVars, taskVars, modalVars,
                   frameVars, pathVars, actionVars, menuVars>>

\* line 98: self.latest_selection.insert(node) runs before buffer.write()?
\* at line 99, so that the node stays recorded when the lock fails
SelectionAfterFailedAdd(sel, node) == sel \cup {node}

\* lines 93-104: LayoutFlags::add_select_one
add_select_one(node, locked) ==
    LET inserted == node \notin latest_selection
    IN /\ IF inserted /\ locked
          THEN /\ latest_selection' =
                     SelectionAfterFailedAdd(latest_selection, node)
               /\ UNCHANGED buffer
               /\ flags_last' = FlagCall("add_select_one", FALSE)
          ELSE /\ latest_selection' = latest_selection \cup {node}
               /\ buffer' = IF inserted
                            THEN [buffer EXCEPT ![FlagIx(node)] = 1]
                            ELSE buffer
               /\ flags_last' = FlagCall("add_select_one", TRUE)
       /\ UNCHANGED <<uiVars, threadVars, ctxVars, taskVars, modalVars,
                      frameVars, pathVars, actionVars, menuVars>>

\* lines 106-122: LayoutFlags::write_latest_buffer
write_latest_buffer(locked) ==
    /\ buffer' =
          IF locked THEN buffer
          ELSE [ix \in DOMAIN buffer |->
                  IF NodeOfIx(ix) \in latest_selection THEN 1 ELSE 0]
    /\ flags_last' = FlagCall("write_latest_buffer", ~locked)
    /\ UNCHANGED latest_selection
    /\ UNCHANGED <<uiVars, threadVars, ctxVars, taskVars, modalVars,
                   frameVars, pathVars, actionVars, menuVars>>

\* lines 135-143: the removed nodes are zeroed, then the added ones set
UpdatedBuffer(buf, old, new) ==
    [ix \in DOMAIN buf |->
        IF \E node \in new \ old : FlagIx(node) = ix THEN 1
        ELSE IF \E node \in old \ new : FlagIx(node) = ix THEN 0
        ELSE buf[ix]]

\* lines 124-149: LayoutFlags::update_selection
update_selection(new_selection, locked) ==
    /\ IF locked
       THEN UNCHANGED <<buffer, latest_selection>>
       ELSE /\ buffer' =
                  UpdatedBuffer(buffer, latest_selection, new_selection)
            /\ latest_selection' = new_selection
    /\ flags_last' = FlagCall("update_selection", ~locked)
    /\ UNCHANGED <<uiVars, threadVars, ctxVars, taskVars, modalVars,
                   frameVars, pathVars, actionVars, menuVars>>

NextFlags ==
    \/ clear
    \/ \E locked \in BOOLEAN : clear_buffer(locked)
    \/ \E node \in Nodes, locked \in BOOLEAN : add_select_one(node, locked)
    \/ \E locked \in BOOLEAN : write_latest_buffer(locked)
    \/ \E new_selection \in SUBSET Nodes, locked \in BOOLEAN :
          update_selection(new_selection, locked)

SpecFlags == Init /\ [][NextFlags]_vars

\* ------------------------------------------------------------------------
\* OverlayCreator (src/src/gui/windows/overlays.rs) and its script task
\* ------------------------------------------------------------------------

\* AsyncResult::move_result_if_ready: Pending becomes Ready once the worker
\* has finished
AsyncMove(st, done) ==
    IF st = "Pending" /\ done \in Outcomes THEN "Ready" ELSE st

\* AsyncResult::take_result_if_ready: the value, once, and the state after
AsyncTake(st, done) ==
    IF st = "Ready"
    THEN [result |-> done, state |-> "Taken"]
    ELSE [result |-> "none", state |-> st]

\* the poll of the handle of a task whose worker is at done: the result
\* when the worker has finished, and at once nothing when it has not
PollOutcome(done) == TryRecvOutcome(IF done \in Outcomes THEN 1 ELSE 0)

\* a click submits whatever the query slot holds
MaySubmitAlways(clicked, query) == clicked

\* run_script.clicked() && self.script_query.is_none()
MaySubmit(clicked, query) == clicked /\ query = 0

\* the status message after a result: lines 326 and 331-347
ErrorAfter(result, old) ==
    CASE result = "Ok"         -> "Success"
      [] result = "IoNotFound" -> "Script not found"
      [] result = "IoOther"    -> old
      [] result = "Gluon"      -> "Gluon error, see console"
      [] result = "Other"      -> old

\* no result makes the ui send a message
SendsOverlayNever(result) == FALSE

\* lines 318-329: match script_result { Ok(data) => .. send(msg) .. }
SendsOverlay(result) == result = "Ok"

\* where the worker of a task submitted in this call has got to when the
\* same call polls the handle: the pool runs it concurrently with the ui
WorkerProgress == {"running"} \cup Outcomes

\* the paths a dropped file can have: one that is valid UTF-8 and one
\* that is not
DroppedPaths == {"d", "nonutf8"}

\* lines 270-272: path.to_str() is None for a path that is not UTF-8, and
\* the input box then keeps its text
PathAfterDrop(path, old) == IF path = "nonutf8" THEN old ELSE path

\* OverlayCreator::ui for one frame; clicked: "Load and execute" clicked,
\* typed: the user fills the name and path boxes in this frame, hovered:
\* the pointer is over the script path row (lines 262-278: a dropped
\* file is then taken as the path), fast: how far the worker of a task
\* submitted by this call has got when the call polls it
OverlayCreatorUi(clicked, typed, hovered, fast) ==
    LET name1  == IF typed THEN "n" ELSE creator_name
        takes  == hovered /\ dropped_file # ""
        edited == IF typed THEN "p" ELSE script_path_input
        path1  == IF takes THEN PathAfterDrop(dropped_file, edited)
                  ELSE edited
        submit == MaySubmit(clicked, script_query)
        query1 == IF submit THEN next_task + 1 ELSE script_query
        done1  == IF submit THEN [task_done EXCEPT ![query1] = fast]
                            ELSE task_done
        st0    == IF query1 = 0 THEN "Pending" ELSE task_state[query1]
        dn0    == IF query1 = 0 THEN "none" ELSE done1[query1]
        st1    == AsyncMove(st0, dn0)
        taken  == AsyncTake(st1, dn0)
        got    == query1 # 0 /\ taken.result # "none"
    IN /\ submit => next_task < MaxTasks
       /\ ~submit => fast = "running"
       /\ query1 # 0 => PollOutcome(dn0) # "Wait"
       /\ dropped_file' = IF takes THEN "" ELSE dropped_file
       /\ next_task' = IF submit THEN next_task + 1 ELSE next_task
       /\ task_done' = done1
       /\ task_state' = IF query1 = 0 THEN task_state
                        ELSE [task_state EXCEPT ![query1] = taken.state]
       /\ readied' = IF query1 # 0 /\ st0 = "Pending" /\ st1 = "Ready"
                     THEN [readied EXCEPT ![query1] = @ + 1]
                     ELSE readied
       /\ IF got
          THEN /\ handled' = [handled EXCEPT ![query1] = @ + 1]
               /\ script_error' = ErrorAfter(taken.result, script_error)
               /\ script_query' = 0
               /\ IF SendsOverlay(taken.result)
                  THEN /\ overlay_chan' =
                            Append(overlay_chan,
                                   [task |-> query1, name |-> name1])
                       /\ script_path_input' = ""
                       /\ creator_name' = ""
                  ELSE /\ overlay_chan' = overlay_chan
                       /\ script_path_input' = path1
                       /\ creator_name' = name1
          ELSE /\ script_query' = query1
               /\ script_path_input' = path1
               /\ creator_name' = name1
               /\ UNCHANGED <<handled, script_error, overlay_chan>>
       /\ UNCHANGED <<uiVars, threadVars, ctxVars, modalVars, frameVars,
                      pathVars, sideVars>>

\* a worker of the thread pool finishes the script of task t
WorkerComplete(t, outcome) ==
    /\ task_done[t] = "running"
    /\ task_done' = [task_done EXCEPT ![t] = outcome]
    /\ UNCHANGED <<script_query, next_task, task_state, script_error,
                   creator_name, script_path_input, overlay_chan, handled,
                   readied, dropped_file>>
    /\ UNCHANGED <<uiVars, threadVars, ctxVars, modalVars, frameVars,
                   pathVars, sideVars>>

\* a holder of the shared dropped_file cell stores the path of a file
\* dropped on the window
FileDropped(path) ==
    /\ dropped_file' = path
    /\ UNCHANGED <<script_query, next_task, task_state, task_done,
                   script_error, creator_name, script_path_input,
                   overlay_chan, handled, readied>>
    /\ UNCHANGED <<uiVars, threadVars, ctxVars, modalVars, frameVars,
                   pathVars, sideVars>>

NextTask ==
    \/ \E clicked \in BOOLEAN, typed \in BOOLEAN, hovered \in BOOLEAN,
          fast \in WorkerProgress :
          OverlayCreatorUi(clicked, typed, hovered, fast)
    \/ \E t \in Tasks, outcome \in Outcomes : WorkerComplete(t, outcome)
    \/ \E path \in DroppedPaths : FileDropped(path)

SpecTask == Init /\ [][NextTask]_vars

\* ------------------------------------------------------------------------
\* The pan-to-node modal and its task (src/src/context.rs)
\* ------------------------------------------------------------------------

DigitVal(c) == IF c = "4" THEN 4 ELSE IF c = "2" THEN 2 ELSE -1

\* the value of a sequence of decimal digits, -1 when a character is none
RECURSIVE DigitsValue(_, _)
DigitsValue(txt, acc) ==
    IF txt = <<>> THEN acc
    ELSE IF DigitVal(Head(txt)) < 0 THEN -1
    ELSE DigitsValue(Tail(txt), 10 * acc + DigitVal(Head(txt)))

\* a parse that takes a leading '-' the way it takes a leading '+'
ParseU64AnySign(txt) ==
    IF txt = <<>> THEN -1
    ELSE LET digits == IF Head(txt) \in {"+", "-"} THEN Tail(txt) ELSE txt
         IN IF digits = <<>> THEN -1 ELSE DigitsValue(digits, 0)

\* str::parse::<u64>: -1 for Err.  The empty text, a lone sign and any
\* non-digit fail; one leading '+' is accepted, '-' is not.  (The texts of
\* the model are shorter than the 20 digits an overflow needs.)
ParseU64(txt) ==
    IF txt = <<>> THEN -1
    ELSE LET digits == IF Head(txt) = "+" THEN Tail(txt) ELSE txt
         IN IF digits = <<>> THEN -1 ELSE DigitsValue(digits, 0)

\* graph.has_node(node_id)
HasNode(n) == n \in GraphNodes

\* the task sends without asking the graph
TaskSendsUnchecked(value) ==
    IF value = NoValue THEN <<>>
    ELSE IF ParseU64(value) >= 0 THEN <<ParseU64(value)>> ELSE <<>>

\* lines 342-348: the node ids the task sends for the received value
TaskSends(value) ==
    IF value = NoValue THEN <<>>
    ELSE LET parsed == ParseU64(value)
         IN IF parsed >= 0 /\ HasNode(parsed) THEN <<parsed>> ELSE <<>>

\* the receive completes on a value only
RecvReadyValueOnly(chan, alive) == chan # <<>>

\* result_rx.next().await completes on a buffered value, or with None once
\* the sender is gone
RecvReady(chan, alive) == chan # <<>> \/ ~alive

\* result_rx.next().await.flatten()
RecvFlatten(chan) == IF chan # <<>> THEN Head(chan) ELSE NoValue

\* result_rx is owned by the async block of lines 339-349: once the block
\* has ended the receiver is dropped
ReceiverGone(pc) == pc = "done"

\* a push of text by a holder of result_tx: it fails, and appends nothing,
\* once the receiver is gone
PushInto(chan, text, pc) ==
    IF ReceiverGone(pc) THEN chan ELSE Append(chan, text)

\* the action closure of pan_to_node_action (ContextMenu::process PanToNode
\* is the same code): the modal is queued and the task spawned
InvokePanToNode(r) ==
    /\ PanToNodeEffect(r)
    /\ UNCHANGED <<uiVars, threadVars, ctxVars, taskVars, frameVars,
                   pathVars, sideVars>>

\* the callback of lines 310-324 on a frame where nothing is typed and
\* Enter is not pressed: line 316 clears first_run, the text stays
ModalIdle(r) ==
    /\ modal_state[r] = "AwaitingInput"
    /\ first_run' = [first_run EXCEPT ![r] = FALSE]
    /\ UNCHANGED <<modal_state, modal_text, result_chan, sender_alive,
                   task_pc, recv_value, committed, sent_by, app_chan>>
    /\ UNCHANGED <<uiVars, threadVars, ctxVars, taskVars, frameVars,
                   pathVars, sideVars>>

\* the callback of lines 310-324 on a frame where the user types c
ModalType(r, c) ==
    /\ modal_state[r] = "AwaitingInput"
    /\ Len(modal_text[r]) < MaxText
    /\ modal_text' = [modal_text EXCEPT ![r] = Append(@, c)]
    /\ first_run' = [first_run EXCEPT ![r] = FALSE]
    /\ UNCHANGED <<modal_state, result_chan, sender_alive, task_pc,
                   recv_value, committed, sent_by, app_chan>>
    /\ UNCHANGED <<uiVars, threadVars, ctxVars, taskVars, frameVars,
                   pathVars, sideVars>>

\* the callback returns Success (Enter with the focus lost): the handler
\* pushes the text into the result channel and retires the request
ModalCommit(r) ==
    /\ modal_state[r] = "AwaitingInput"
    /\ modal_state' = [modal_state EXCEPT ![r] = "Resolved"]
    /\ first_run' = [first_run EXCEPT ![r] = FALSE]
    /\ result_chan' = [result_chan EXCEPT ![r] =
                          PushInto(@, modal_text[r], task_pc[r])]
    /\ committed' = [committed EXCEPT ![r] = modal_text[r]]
    /\ sender_alive' = [sender_alive EXCEPT ![r] = FALSE]
    /\ UNCHANGED <<modal_text, task_pc, recv_value, sent_by, app_chan>>
    /\ UNCHANGED <<uiVars, threadVars, ctxVars, taskVars, frameVars,
                   pathVars, sideVars>>

\* the request is dropped before it is resolved
ModalDrop(r) ==
    /\ modal_state[r] = "AwaitingInput"
    /\ modal_state' = [modal_state EXCEPT ![r] = "Dropped"]
    /\ sender_alive' = [sender_alive EXCEPT ![r] = FALSE]
    /\ UNCHANGED <<modal_text, first_run, result_chan, task_pc, recv_value,
                   committed, sent_by, app_chan>>
    /\ UNCHANGED <<uiVars, threadVars, ctxVars, taskVars, frameVars,
                   pathVars, sideVars>>

\* a task that goes back to await the next value of the stream
TaskAfterRecvLoop == "waiting"

\* lines 340-349: the async block awaits result_rx.next() once and runs to
\* its end
TaskAfterRecv == "done"

\* the buffer after the task has taken its value: a task that ended drops
\* result_rx, and whatever was still buffered is discarded with it
BufferAfterResume(chan, pc) ==
    IF ReceiverGone(pc) THEN <<>>
    ELSE IF chan = <<>> THEN chan ELSE Tail(chan)

\* lines 339-349: the spawned task resumes from its await and finishes
TaskResume(r) ==
    /\ task_pc[r] = "waiting"
    /\ RecvReady(result_chan[r], sender_alive[r])
    /\ LET value == RecvFlatten(result_chan[r])
           sends == TaskSends(value)
       IN /\ recv_value' = [recv_value EXCEPT ![r] = value]
          /\ sent_by' = [sent_by EXCEPT ![r] = @ \o sends]
          /\ app_chan' = app_chan \o
                [i \in DOMAIN sends |-> [kind |-> "goto_node",
                                         node |-> sends[i]]]
    /\ result_chan' = [result_chan EXCEPT ![r] =
                          BufferAfterResume(@, TaskAfterRecv)]
    /\ task_pc' = [task_pc EXCEPT ![r] = TaskAfterRecv]
    /\ UNCHANGED <<modal_state, modal_text, first_run, sender_alive,
                   committed>>
    /\ UNCHANGED <<uiVars, threadVars, ctxVars, taskVars, frameVars,
                   pathVars, sideVars>>

NextModal ==
    \/ \E r \in Requests : InvokePanToNode(r)
    \/ \E r \in Requests : ModalIdle(r)
    \/ \E r \in Requests, c \in Chars : ModalType(r, c)
    \/ \E r \in Requests : ModalCommit(r)
    \/ \E r \in Requests : ModalDrop(r)
    \/ \E r \in Requests : TaskResume(r)

SpecModal == Init /\ [][NextModal]_vars

\* futures::channel::mpsc::channel(1) with one Sender: the buffer of 1 plus
\* one guaranteed slot per sender
ResultCap == 2

\* a holder of result_tx pushes the text while the modal stays open, so
\* that a later push can follow
ModalPushKeepOpen(r) ==
    /\ modal_state[r] = "AwaitingInput"
    /\ sender_alive[r]
    /\ Len(result_chan[r]) < ResultCap
    /\ result_chan' = [result_chan EXCEPT ![r] =
                          PushInto(@, modal_text[r], task_pc[r])]
    /\ committed' = [committed EXCEPT ![r] =
                        IF @ = NoValue THEN modal_text[r] ELSE @]
    /\ first_run' = [first_run EXCEPT ![r] = FALSE]
    /\ UNCHANGED <<modal_state, modal_text, sender_alive, task_pc,
                   recv_value, sent_by, app_chan>>
    /\ UNCHANGED <<uiVars, threadVars, ctxVars, taskVars, frameVars,
                   pathVars, sideVars>>

\* the characters typed while several values are pushed
PushChars == {"4", "2"}

NextModalPush ==
    \/ \E r \in Requests : InvokePanToNode(r)
    \/ \E r \in Requests : ModalIdle(r)
    \/ \E r \in Requests, c \in PushChars : ModalType(r, c)
    \/ \E r \in Requests : ModalPushKeepOpen(r)
    \/ \E r \in Requests : ModalCommit(r)
    \/ \E r \in Requests : TaskResume(r)

SpecModalPush == Init /\ [][NextModalPush]_vars

\* ------------------------------------------------------------------------
\* The frame loop (src/src/main.rs): one Event::NewEvents, MainEventsCleared
\* and RedrawEventsCleared per frame.  Each iteration of a while-let drain
\* is one step, so that the other threads may send between two receives of
\* the same loop.
\* ------------------------------------------------------------------------

AppMsg(k, n) == [kind |-> k, node |-> n]

\* the drains with the app queue drained before main_view_rx
DrainOrderAppFirst ==
    <<"app_in", "gui_in", "app_msg", "main_view_in", "gui_msg", "cfg_msg",
      "main_view_msg", "new_overlay">>

\* lines 330-390: the drains of NewEvents, in program order
DrainOrder ==
    <<"app_in", "gui_in", "main_view_in", "app_msg", "gui_msg", "cfg_msg",
      "main_view_msg", "new_overlay">>

\* the position after drain d: the next drain, or MainEventsCleared
AfterDrain(d) ==
    LET i == CHOOSE j \in DOMAIN DrainOrder : DrainOrder[j] = d
    IN IF i = Len(DrainOrder) THEN "animation" ELSE DrainOrder[i + 1]

\* the number of messages waiting in the queue that drain d receives from
Waiting(d) ==
    CASE d = "app_msg"       -> Len(app_chan)
      [] d = "cfg_msg"       -> Len(cfg_chan)
      [] d = "main_view_msg" -> Len(mv_chan)
      [] d = "new_overlay"   -> Len(overlay_chan)
      [] OTHER               -> in_chans[d]

\* one iteration of the while-let loop of drain d: a message received
\* keeps the render thread in the loop, Err(Empty) takes it to the next
\* position; when d is the last drain of the frame, what the three queues
\* still hold is recorded
DrainStep(d) ==
    /\ frame_pc = d
    /\ TryRecvOutcome(Waiting(d)) # "Wait"
    /\ frame_pc' = IF TryRecvOutcome(Waiting(d)) = "Ok" THEN d
                   ELSE AfterDrain(d)
    /\ IF TryRecvOutcome(Waiting(d)) = "Empty" /\ AfterDrain(d) = "animation"
       THEN /\ frame_steps' = Append(frame_steps, "commands")
            /\ left_at_drain_end' =
                  [app |-> app_chan', cfg |-> cfg_chan', mv |-> mv_chan']
       ELSE UNCHANGED <<frame_steps, left_at_drain_end>>
    /\ UNCHANGED swapVars

\* the queues an input event can be forwarded to
InTargets == {"app_in", "gui_in", "main_view_in", "gui_msg"}

\* input_manager.handle_events(&gui_msg_tx) (line 297): the window events
\* waiting on winit_rx are all taken, and each is forwarded to the queues
\* of targets
HandleEvents(ch, targets) ==
    [q \in InQueues |->
        IF q = "winit" THEN 0
        ELSE IF q \in targets THEN ch[q] + ch["winit"] ELSE ch[q]]

\* lines 289-328: the start of NewEvents up to the first drain; line 297
\* handles the window events, line 307 sends AppMsg::HoverNode
FrameNewEvents(targets) ==
    /\ frame_pc = "new_events"
    /\ DrainEnds
    /\ targets # {} => in_chans["winit"] > 0
    /\ \A q \in targets : in_chans[q] + in_chans["winit"] <= MaxIn
    /\ in_chans' = HandleEvents(in_chans, targets)
    /\ app_chan' = Append(app_chan, AppMsg("HoverNode", 0))
    /\ frame_steps' = <<>>
    /\ left_at_drain_end' = NoneLeft
    /\ enq_by_handlers' = 0
    /\ frame_pc' = DrainOrder[1]
    /\ UNCHANGED <<cfg_chan, mv_chan, modalRest, swapVars>>
    /\ UNCHANGED <<uiVars, threadVars, ctxVars, taskVars, pathVars, sideVars>>

\* the queue q after one iteration of its drain
InAfterRecv(ch, q) ==
    IF TryRecvOutcome(ch[q]) = "Ok" THEN [ch EXCEPT ![q] = @ - 1] ELSE ch

\* lines 330-332: one iteration of the drain of app_rx; app.apply_input
\* holds gui_msg_tx and may send on it
FrameAppIn(to_gui) ==
    /\ frame_pc = "app_in"
    /\ to_gui => in_chans["app_in"] > 0 /\ in_chans["gui_msg"] < MaxIn
    /\ in_chans' =
          IF to_gui
          THEN [InAfterRecv(in_chans, "app_in") EXCEPT !["gui_msg"] = @ + 1]
          ELSE InAfterRecv(in_chans, "app_in")
    /\ UNCHANGED <<app_chan, cfg_chan, mv_chan, enq_by_handlers, modalRest>>
    /\ UNCHANGED <<uiVars, threadVars, ctxVars, taskVars, pathVars, sideVars>>
    /\ DrainStep("app_in")

\* lines 334-336: one iteration of the drain of gui_rx; gui.apply_input
\* holds app_msg_tx and cfg_msg_tx and may send on either
FrameGuiIn(to_app, to_cfg) ==
    /\ frame_pc = "gui_in"
    /\ to_app \/ to_cfg => in_chans["gui_in"] > 0
    /\ in_chans' = InAfterRecv(in_chans, "gui_in")
    /\ app_chan' = IF to_app THEN Append(app_chan, AppMsg("SelectNode", 0))
                             ELSE app_chan
    /\ cfg_chan' = IF to_cfg THEN Append(cfg_chan, "ToggleSelectionOutline")
                             ELSE cfg_chan
    /\ enq_by_handlers' = enq_by_handlers + (IF to_app THEN 1 ELSE 0)
                                          + (IF to_cfg THEN 1 ELSE 0)
    /\ UNCHANGED <<mv_chan, modalRest>>
    /\ UNCHANGED <<uiVars, threadVars, ctxVars, taskVars, pathVars, sideVars>>
    /\ DrainStep("gui_in")

\* lines 338-340: one iteration of the drain of main_view_rx;
\* main_view.apply_input holds app_msg_tx
FrameMainViewIn(to_app) ==
    /\ frame_pc = "main_view_in"
    /\ to_app => in_chans["main_view_in"] > 0
    /\ in_chans' = InAfterRecv(in_chans, "main_view_in")
    /\ app_chan' = IF to_app THEN Append(app_chan, AppMsg("SelectNode", 0))
                             ELSE app_chan
    /\ enq_by_handlers' = enq_by_handlers + (IF to_app THEN 1 ELSE 0)
    /\ UNCHANGED <<cfg_chan, mv_chan, modalRest>>
    /\ UNCHANGED <<uiVars, threadVars, ctxVars, taskVars, pathVars, sideVars>>
    /\ DrainStep("main_view_in")

\* lines 342-348: one iteration of the drain of app_msg_rx;
\* app.apply_app_msg holds main_view_msg_tx and may send on it
FrameAppMsg(to_mv) ==
    /\ frame_pc = "app_msg"
    /\ to_mv => app_chan # <<>>
    /\ app_chan' = IF app_chan # <<>> THEN Tail(app_chan) ELSE app_chan
    /\ mv_chan' = IF to_mv THEN Append(mv_chan, "GotoView") ELSE mv_chan
    /\ enq_by_handlers' = enq_by_handlers + (IF to_mv THEN 1 ELSE 0)
    /\ UNCHANGED <<cfg_chan, in_chans, modalRest>>
    /\ UNCHANGED <<uiVars, threadVars, ctxVars, taskVars, pathVars, sideVars>>
    /\ DrainStep("app_msg")

\* line 350: one iteration of gui.apply_received_gui_msgs, which applies
\* the GuiMsg values waiting on gui_msg_rx
FrameGuiMsgs ==
    /\ frame_pc = "gui_msg"
    /\ in_chans' = InAfterRecv(in_chans, "gui_msg")
    /\ UNCHANGED <<app_chan, cfg_chan, mv_chan, enq_by_handlers, modalRest>>
    /\ UNCHANGED <<uiVars, threadVars, ctxVars, taskVars, pathVars, sideVars>>
    /\ DrainStep("gui_msg")

\* lines 352-354: one iteration of the drain of cfg_msg_rx
FrameCfgMsg ==
    /\ frame_pc = "cfg_msg"
    /\ cfg_chan' = IF cfg_chan # <<>> THEN Tail(cfg_chan) ELSE cfg_chan
    /\ UNCHANGED <<app_chan, mv_chan, in_chans, enq_by_handlers, modalRest>>
    /\ UNCHANGED <<uiVars, threadVars, ctxVars, taskVars, pathVars, sideVars>>
    /\ DrainStep("cfg_msg")

\* lines 356-358: one iteration of the drain of main_view_msg_rx
FrameMainViewMsg ==
    /\ frame_pc = "main_view_msg"
    /\ mv_chan' = IF mv_chan # <<>> THEN Tail(mv_chan) ELSE mv_chan
    /\ UNCHANGED <<app_chan, cfg_chan, in_chans, enq_by_handlers, modalRest>>
    /\ UNCHANGED <<uiVars, threadVars, ctxVars, taskVars, pathVars, sideVars>>
    /\ DrainStep("main_view_msg")

\* lines 360-390: one iteration of the drain of new_overlay_rx
FrameNewOverlay ==
    /\ frame_pc = "new_overlay"
    /\ overlay_chan' = IF overlay_chan # <<>> THEN Tail(overlay_chan)
                       ELSE overlay_chan
    /\ UNCHANGED <<app_chan, cfg_chan, mv_chan, in_chans, enq_by_handlers,
                   modalRest, taskRest>>
    /\ UNCHANGED <<uiVars, threadVars, ctxVars, pathVars, sideVars>>
    /\ DrainStep("new_overlay")

\* the sizes a window can have: a minimized window has a dimension of 0
Sizes == {<<0, 1>>, <<1, 0>>, <<1, 1>>}

\* lines 281-284 and 699-701: WindowEvent::Resized, delivered after
\* NewEvents and before MainEventsCleared, is sent on winit_tx and marks
\* the swapchain dirty; the window has its new size from then on
WindowResized(size) ==
    /\ frame_pc = "animation"
    /\ in_chans["winit"] < MaxIn
    /\ in_chans' = [in_chans EXCEPT !["winit"] = @ + 1]
    /\ dirty_swapchain' = TRUE
    /\ inner_size' = size
    /\ UNCHANGED <<frame_pc, app_chan, cfg_chan, mv_chan, frame_steps,
                   left_at_drain_end, enq_by_handlers, modalRest>>
    /\ UNCHANGED <<uiVars, threadVars, ctxVars, taskVars, pathVars, sideVars>>

\* lines 281-284 and 702-711: any other WindowEvent is sent on winit_tx
\* and its arm of the match does nothing
WindowInput ==
    /\ frame_pc = "animation"
    /\ in_chans["winit"] < MaxIn
    /\ in_chans' = [in_chans EXCEPT !["winit"] = @ + 1]
    /\ UNCHANGED <<frame_pc, app_chan, cfg_chan, mv_chan, frame_steps,
                   left_at_drain_end, enq_by_handlers, modalRest, swapVars>>
    /\ UNCHANGED <<uiVars, threadVars, ctxVars, taskVars, pathVars, sideVars>>

\* lines 392-395: MainEventsCleared, main_view.update_view_animation
FrameMainEventsCleared ==
    /\ frame_pc = "animation"
    /\ frame_pc' = "gui_begin_frame"
    /\ UNCHANGED <<app_chan, cfg_chan, mv_chan, in_chans, frame_steps,
                   left_at_drain_end, enq_by_handlers, modalRest, swapVars>>
    /\ UNCHANGED <<uiVars, threadVars, ctxVars, taskVars, pathVars, sideVars>>

\* lines 436-474: with the swapchain dirty and a window dimension of 0
\* the RedrawEventsCleared arm returns before gui.begin_frame
SkipsFrame(dirty, size) == dirty /\ ~(size[1] > 0 /\ size[2] > 0)

\* the steps of Gui::begin_frame, in the order of the control flow per
\* frame: poll the task handles, materialize the context, render the modal
GuiFrameSteps == <<"tasks", "context", "modal">>

\* lines 416-481: RedrawEventsCleared up to gui.begin_frame; a skipped
\* frame polls no task, materializes no context, renders no modal and
\* draws nothing: the next event is NewEvents, the swapchain still dirty
FrameGuiBegin ==
    /\ frame_pc = "gui_begin_frame"
    /\ IF SkipsFrame(dirty_swapchain, inner_size)
       THEN /\ frame_pc' = "new_events"
            /\ UNCHANGED frame_steps
       ELSE /\ frame_steps' = frame_steps \o GuiFrameSteps
            /\ frame_pc' = "view_read"
    /\ UNCHANGED <<app_chan, cfg_chan, mv_chan, in_chans, left_at_drain_end,
                   enq_by_handlers, modalRest, swapVars>>
    /\ UNCHANGED <<uiVars, threadVars, ctxVars, taskVars, pathVars, sideVars>>

\* the render thread takes the View the animation thread has published
\* since the last frame, if there is one, and goes on with the View it
\* has when there is none
FrameReadView ==
    /\ frame_pc = "view_read"
    /\ TryRecvOutcome(Len(view_chan)) # "Wait"
    /\ IF TryRecvOutcome(Len(view_chan)) = "Ok"
       THEN /\ read_view' = Head(view_chan)
            /\ read_latest' = latest_view
            /\ reads' = IF reads < 2 THEN reads + 1 ELSE reads
            /\ view_chan' = <<>>
       ELSE UNCHANGED <<read_view, read_latest, reads, view_chan>>
    /\ frame_pc' = "draw"
    /\ UNCHANGED <<app_chan, cfg_chan, mv_chan, in_chans, frame_steps,
                   left_at_drain_end, enq_by_handlers, modalRest, swapVars>>
    /\ UNCHANGED <<uiVars, cmd_chan, since_last_update, thread_pc, iters,
                   latest_view, cmdLog, endsAlive, ctxVars, taskVars,
                   pathVars, sideVars>>

\* lines 483-661: gui.end_frame and the draw, which reads the view;
\* draw_frame_from tells whether the swapchain has to be recreated
FrameDraw(recreate) ==
    /\ frame_pc = "draw"
    /\ frame_steps' = Append(frame_steps, "view")
    /\ frame_pc' = "new_events"
    /\ dirty_swapchain' = recreate
    /\ UNCHANGED <<app_chan, cfg_chan, mv_chan, in_chans, left_at_drain_end,
                   enq_by_handlers, modalRest, inner_size>>
    /\ UNCHANGED <<uiVars, threadVars, ctxVars, taskVars, pathVars, sideVars>>

\* the render thread is inside gui.begin_frame, where the context menu
\* invokes actions and the modal is rendered
InGuiFrame ==
    /\ frame_pc = "gui_begin_frame"
    /\ ~SkipsFrame(dirty_swapchain, inner_size)

\* the next step of the frame loop at its position: ControlFlow::Poll
\* (line 273) has the event loop deliver NewEvents, MainEventsCleared and
\* RedrawEventsCleared again and again without waiting for an event
FrameProgress ==
    \/ \E targets \in SUBSET InTargets : FrameNewEvents(targets)
    \/ \E to_gui \in BOOLEAN : FrameAppIn(to_gui)
    \/ \E to_app \in BOOLEAN, to_cfg \in BOOLEAN : FrameGuiIn(to_app, to_cfg)
    \/ \E to_app \in BOOLEAN : FrameMainViewIn(to_app)
    \/ \E to_mv \in BOOLEAN : FrameAppMsg(to_mv)
    \/ FrameGuiMsgs
    \/ FrameCfgMsg
    \/ FrameMainViewMsg
    \/ FrameNewOverlay
    \/ FrameMainEventsCleared
    \/ FrameGuiBegin
    \/ FrameReadView
    \/ \E recreate \in BOOLEAN : FrameDraw(recreate)

\* one step of the event loop's closure, whatever its position
FrameStep ==
    \/ FrameProgress
    \/ \E size \in Sizes : WindowResized(size)
    \/ WindowInput

\* the frame loop; the modal of a pan-to-node request, invoked, typed into
\* and committed inside gui.begin_frame; its task on the worker pool,
\* resuming at any time
NextFrame ==
    \/ FrameStep
    \/ \E r \in Requests : InGuiFrame /\ InvokePanToNode(r)
    \/ \E r \in Requests : InGuiFrame /\ ModalIdle(r)
    \/ \E r \in Requests : InGuiFrame /\ ModalType(r, "4")
    \/ \E r \in Requests : InGuiFrame /\ ModalCommit(r)
    \/ \E r \in Requests : TaskResume(r)

SpecFrame == Init /\ [][NextFrame]_vars

\* the next step of the frame loop while no window event arrives: the
\* input manager forwards nothing, and of the handlers app.apply_app_msg
\* sends, a GotoView for a goto_node message
RenderProgress ==
    \/ FrameNewEvents({})
    \/ FrameAppIn(FALSE)
    \/ FrameGuiIn(FALSE, FALSE)
    \/ FrameMainViewIn(FALSE)
    \/ FrameAppMsg(app_chan # <<>> /\ Head(app_chan).kind = "goto_node")
    \/ FrameGuiMsgs
    \/ FrameCfgMsg
    \/ FrameMainViewMsg
    \/ FrameNewOverlay
    \/ FrameMainEventsCleared
    \/ FrameGuiBegin
    \/ FrameReadView
    \/ FrameDraw(FALSE)

\* iterations of the animation thread next to the frame loop
RenderIters == 1

\* the render thread with what it polls inside gui.begin_frame (the
\* context manager's begin_frame, the overlay creator's window, the modal
\* of a pan-to-node request) and the parties it never waits for: context
\* producers, the worker of a script, the task of the pan-to-node request
\* and the animation thread.  One script is submitted, the context menu is
\* opened once and one request is invoked, with "4" typed on every frame
\* that shows its modal before the commit.
NextRender ==
    \/ RenderProgress
    \/ InGuiFrame /\ begin_frame
    \/ InGuiFrame /\ OverlayCreatorUi(next_task = 0, TRUE, FALSE, "running")
    \/ \E t \in Tasks : WorkerComplete(t, "Ok")
    \/ \E p \in LifecycleProduceInputs : produce_context(p[1], p[2])
    \/ ~context_menu_open /\ open_context_menu
    \/ InGuiFrame /\ InvokePanToNode(1)
    \/ InGuiFrame /\ ModalType(1, "4")
    \/ InGuiFrame /\ ModalCommit(1)
    \/ TaskResume(1)
    \/ iters < RenderIters /\ ThreadMeasure(0)
    \/ ThreadRecv
    \/ ThreadPublish

\* ControlFlow::Poll (line 273): the event loop delivers NewEvents,
\* MainEventsCleared and RedrawEventsCleared again and again without waiting
\* for an event, so that the render thread goes on taking its steps;
\* nothing is asked of any other party
SpecRender == Init /\ [][NextRender]_vars /\ WF_vars(RenderProgress)

\* ------------------------------------------------------------------------
\* PathList and StepList (src/src/gui/windows/paths.rs)
\* ------------------------------------------------------------------------

\* page_start of a page: lines 417-418 and 518
PageStart(page, page_size, len) ==
    MinOf(page * page_size, len - (len % page_size))

\* page_end of a page: lines 419 and 519
PageEnd(page, page_size, len) ==
    MinOf(PageStart(page, page_size, len) + page_size, len)

\* lines 241-244: the page count PathList::ui computes on every frame
PathPageCount(len, page_size) ==
    IF len = page_size THEN (len \div page_size) - 1 ELSE len \div page_size

\* lines 347-384: PathList::new on a graph of n paths; a slot holds the
\* index of its path in all_paths, 0 for None
PathListNew(n, page_size) ==
    LET size == MinOf(page_size, n)
    IN [ built |-> TRUE, n |-> n, page |-> 0, page_size |-> size,
         page_count |-> n \div size,
         slots |-> [i \in 1..size |-> 0],
         update_slots |-> TRUE,
         page_start |-> 0, page_end |-> 0,
         last |-> "new" ]

\* lines 410-430: PathList::update_slots with the flag set
PathUpdateSlots(pl) ==
    LET start == PageStart(pl.page, pl.page_size, pl.n)
        end   == PageEnd(pl.page, pl.page_size, pl.n)
    IN [pl EXCEPT !.slots = [i \in DOMAIN pl.slots |->
                                IF i <= end - start THEN start + i ELSE 0],
                  !.page_start = start,
                  !.page_end = end,
                  !.update_slots = FALSE]

\* lines 280-302: the First, Prev, Next and Last buttons
PathClick(pl, click) ==
    CASE click = "First" -> [pl EXCEPT !.page = 0]
      [] click = "Prev" ->
            IF pl.page > 0
            THEN [pl EXCEPT !.page = @ - 1, !.update_slots = TRUE]
            ELSE pl
      [] click = "Next" ->
            IF pl.page < pl.page_count
            THEN [pl EXCEPT !.page = @ + 1, !.update_slots = TRUE]
            ELSE pl
      [] click = "Last" -> [pl EXCEPT !.page = pl.page_count]
      [] OTHER -> pl

\* lines 232-345: PathList::ui for one frame
PathListUiOf(pl, click) ==
    LET counted == [pl EXCEPT !.page_count =
                        PathPageCount(pl.n, pl.page_size)]
        slotted == IF counted.update_slots THEN PathUpdateSlots(counted)
                                           ELSE counted
    IN [PathClick(slotted, click) EXCEPT !.last = "ui"]

\* usize::clamp(0, page_count)
ClampPage(page, page_count) == MinOf(MaxOf(page, 0), page_count)

\* lines 386-408: PathList::apply_msg
PathApplyMsgOf(pl, msg) ==
    LET after ==
          CASE msg.kind = "NextPage" ->
                 IF pl.page < pl.page_count
                 THEN [pl EXCEPT !.page = @ + 1, !.update_slots = TRUE]
                 ELSE pl
            [] msg.kind = "PrevPage" ->
                 IF pl.page > 0
                 THEN [pl EXCEPT !.page = @ - 1, !.update_slots = TRUE]
                 ELSE pl
            [] msg.kind = "SetPage" ->
                 LET page == ClampPage(msg.page, pl.page_count)
                 IN IF pl.page # page
                    THEN [pl EXCEPT !.page = page, !.update_slots = TRUE]
                    ELSE pl
    IN [after EXCEPT !.last = msg.kind]

\* lines 456-479: StepList::update_for_path for a path of len steps
StepUpdateForPath(sl, path, len) ==
    IF sl.fetched_path_id = path THEN sl
    ELSE [sl EXCEPT !.steps = len, !.page = 0,
                    !.page_count = len \div sl.page_size,
                    !.fetched_path_id = path]

\* lines 481-519: the buttons of StepList::ui and the slice it shows
StepListUiOf(sl, click) ==
    LET page == CASE click = "First" -> 0
                  [] click = "Prev" ->
                        IF sl.page > 0 THEN sl.page - 1 ELSE sl.page
                  [] click = "Next" ->
                        IF sl.page < sl.page_count THEN sl.page + 1
                                                   ELSE sl.page
                  [] click = "Last" -> sl.page_count
                  [] OTHER -> sl.page
    IN [sl EXCEPT !.page = page,
                  !.page_start = PageStart(page, sl.page_size, sl.steps),
                  !.page_end = PageEnd(page, sl.page_size, sl.steps)]

\* paths of the graph
MaxPaths == 4

\* page sizes handed to PathList::new
MaxPageSize == 3

\* the buttons clicked in one frame
Clicks == {"none", "First", "Prev", "Next", "Last"}

PathListMsgs ==
    { [kind |-> "NextPage", page |-> 0], [kind |-> "PrevPage", page |-> 0] }
    \cup { [kind |-> "SetPage", page |-> q] : q \in 0..(MaxPaths + 1) }

\* the step counts of the paths of the graph, by path id
PathSteps == <<30, 15, 16, 7>>

PathListCreate(n, page_size) ==
    /\ ~path_list.built
    /\ path_list' = PathListNew(n, page_size)
    /\ page_changed' = FALSE
    /\ UNCHANGED <<step_list, uiVars, threadVars, ctxVars, taskVars,
                   modalVars, frameVars, sideVars>>

PathListUi(click) ==
    /\ path_list.built
    /\ path_list' = PathListUiOf(path_list, click)
    /\ page_changed' = (path_list'.page # path_list.page)
    /\ UNCHANGED <<step_list, uiVars, threadVars, ctxVars, taskVars,
                   modalVars, frameVars, sideVars>>

PathListApplyMsg(msg) ==
    /\ path_list.built
    /\ path_list' = PathApplyMsgOf(path_list, msg)
    /\ page_changed' = (path_list'.page # path_list.page)
    /\ UNCHANGED <<step_list, uiVars, threadVars, ctxVars, taskVars,
                   modalVars, frameVars, sideVars>>

\* lines 136-138 and 481-519: one frame of the path details window showing
\* path, with one button clicked
StepListFrame(path, click) ==
    /\ step_list' =
          StepListUiOf(StepUpdateForPath(step_list, path, PathSteps[path]),
                       click)
    /\ UNCHANGED <<path_list, page_changed, uiVars, threadVars, ctxVars,
                   taskVars, modalVars, frameVars, sideVars>>

NextPaths ==
    \/ \E n \in 1..MaxPaths, page_size \in 1..MaxPageSize :
          PathListCreate(n, page_size)
    \/ \E click \in Clicks : PathListUi(click)
    \/ \E msg \in PathListMsgs : PathListApplyMsg(msg)
    \/ \E path \in DOMAIN PathSteps, click \in Clicks :
          StepListFrame(path, click)

SpecPaths == Init /\ [][NextPaths]_vars

\* ------------------------------------------------------------------------
\* Camera properties
\* ------------------------------------------------------------------------

\* C1: under Zoom and Pan commands interleaved with integration steps of any
\* elapsed time, starting from UIState::new, view.scale is never below the
\* minimum 0.5.  (ZoomPanOnly holds while no other command has been applied.)
ZoomPanSpecNext ==
    \/ \E cmd \in {c \in CmdInputs : c.kind \in {"Zoom", "Pan"}} : ApplyCmd(cmd)
    \/ \E t \in TimeSteps : UpdateAnim(t)

SpecZoomPan == Init /\ [][ZoomPanSpecNext]_vars

C1_ScaleAtLeastMin == ui_state.view.scale >= MinScale

\* the clamp has acted: the scale sits on the floor after an integration step
C1_Witness ==
    /\ ui_last = "update"
    /\ ui_state.view.scale = MinScale

\* C2: the consumer's read of the view channel returns the most recently
\* produced View (the view of the thread's last publish step), never an
\* older one.
C2_ReadsLatest == reads > 0 => read_view = read_latest

\* C11: view.scale >= 0.5 in every reachable state of UIState, under any
\* sequence of the six commands and integration steps, and in every View
\* waiting in the view channel.
C11_ScaleFloorEverywhere ==
    /\ ui_state.view.scale >= MinScale
    /\ \A i \in DOMAIN view_chan : view_chan[i].scale >= MinScale

\* C12: the publish step of the animation thread never blocks: whenever the
\* thread stands at its publish step the step can be taken, whatever the
\* consumer has or has not read.
C12_PublishNeverBlocks == thread_pc = "publish" => ENABLED ThreadPublish

\* the consumer has never read, the slot is full, and the thread has gone
\* through two publish steps and stands at a third
C12_Witness ==
    /\ reads = 0
    /\ Len(view_chan) = ViewCap
    /\ iters >= 2
    /\ thread_pc = "publish"

\* the Resize commands of a sequence of commands, in order
RECURSIVE Resizes(_)
Resizes(log) ==
    IF log = <<>> THEN <<>>
    ELSE IF Head(log).kind = "Resize" THEN <<Head(log)>> \o Resizes(Tail(log))
    ELSE Resizes(Tail(log))

\* C15: the commands applied by the animation thread followed by the ones
\* still waiting are exactly the commands sent, in send order: each is
\* applied once, none is dropped, reordered or merged; and once Resize
\* commands have been applied the view has the dimensions of the latest.
C15_AppliedInSendOrder ==
    /\ sent_log = applied_log \o cmd_chan
    /\ LET rs == Resizes(applied_log)
       IN rs # <<>> =>
             /\ ui_state.view.width = rs[Len(rs)].a
             /\ ui_state.view.height = rs[Len(rs)].b

\* two different Resize commands applied one after the other, a third
\* command still waiting
C15_Witness ==
    /\ Len(applied_log) = 2
    /\ applied_log[1].kind = "Resize"
    /\ applied_log[2].kind = "Resize"
    /\ applied_log[1] # applied_log[2]
    /\ ui_state.view.width = applied_log[2].a
    /\ cmd_chan # <<>>

\* C8: after SetScale{s} with s >= 0.5 the scale equals s, and it still
\* equals s after any integration steps (t = 0 included) while no Zoom or
\* SetScale command intervenes.
C8_SetScaleSticks ==
    pinned_scale >= MinScale => ui_state.view.scale = pinned_scale

\* SetScale{2.0} followed by an integration step with t = 0
C8_Witness ==
    /\ pinned_scale = 2 * Unit
    /\ ui_last = "update"
    /\ ui_last_t = 0
    /\ ui_state.view.scale = 2 * Unit

\* C29: once the path list is built (n >= 1 paths), after any sequence of
\* messages, clicks and ui frames the current page lies in 0..page_count,
\* and the slice last computed for the slots satisfies
\* 0 <= page_start <= page_end <= n.
C29_PageInRange ==
    path_list.built =>
        /\ 0 <= path_list.page
        /\ path_list.page <= path_list.page_count
        /\ 0 <= path_list.page_start
        /\ path_list.page_start <= path_list.page_end
        /\ path_list.page_end <= path_list.n

\* the elements of a page, as indices 1..len of the list
PageItems(page, page_size, len) ==
    (PageStart(page, page_size, len) + 1)..PageEnd(page, page_size, len)

\* the pages 0..page_count are non-empty, pairwise disjoint, cover the
\* list, and there are ceil(len / page_size) of them
PagesExact(len, page_size, page_count) ==
    /\ \A k \in 0..page_count : PageItems(k, page_size, len) # {}
    /\ \A j, k \in 0..page_count :
          j # k => PageItems(j, page_size, len)
                      \cap PageItems(k, page_size, len) = {}
    /\ UNION { PageItems(k, page_size, len) : k \in 0..page_count }
          = 1..len
    /\ page_count + 1 = (len + page_size - 1) \div page_size

\* C30: for a list of n elements and a page size p with 1 <= p <= n, the
\* pages 0..page_count of the path list as shown by a ui frame, and of the
\* step list, are non-empty, pairwise disjoint and contain every element
\* once: page_count + 1 = ceil(n / p).
C30_PagesPartition ==
    /\ (path_list.built /\ path_list.last = "ui") =>
          PagesExact(path_list.n, path_list.page_size, path_list.page_count)
    /\ (1 <= step_list.page_size /\ step_list.page_size <= step_list.steps)
          => PagesExact(step_list.steps, step_list.page_size,
                        step_list.page_count)

\* C21: the receive step of a loop iteration of the animation thread applies
\* every command that is in the command queue when the step starts, in queue
\* order, before the iteration publishes a View.
C21_TickDrainsQueue ==
    [][ThreadRecv => applied_log' = applied_log \o cmd_chan]_vars

\* C22 (as stated): an integration step with elapsed time 0 changes
\* nothing: view_delta, view_const_delta, scale_delta and the View are the
\* same after update_anim(0) as before it.
C22_ZeroStepNoOp == [][UpdateAnim(0) => ui_state' = ui_state]_vars

\* nine tenths of a value in 1/Unit, truncated as the product is
NineTenths(a) == TruncDiv(9 * a, 10)

\* C22 (amended): update_anim(0) leaves view_const_delta and the View's
\* center, width and height unchanged and the scale too when it is at least
\* 0.5 (a smaller scale is raised to 0.5); view_delta and scale_delta are
\* multiplied by 0.9, scale_delta becoming 0 when the product is below
\* 0.00001 in magnitude.
C22_ZeroStepDecays ==
    [][UpdateAnim(0) =>
         LET a == ui_state.anim
             sd == NineTenths(a.scale_delta)
         IN /\ ui_state'.anim.view_const_delta = a.view_const_delta
            /\ ui_state'.view =
                  [ui_state.view EXCEPT !.scale = MaxOf(@, Unit \div 2)]
            /\ ui_state'.anim.view_delta =
                  Point(NineTenths(a.view_delta.x), NineTenths(a.view_delta.y))
            /\ ui_state'.anim.scale_delta =
                  IF Abs(sd) * 100000 < Unit THEN 0 ELSE sd]_vars

\* a zero-time step after Pan (700, -700) and a Zoom: the clamped momentum
\* (600, -600) has decayed to (540, -540) and the zoom momentum is still
\* there
C22_Witness ==
    /\ ui_last = "update"
    /\ ui_last_t = 0
    /\ ui_state.anim.view_delta = Point(540 * Unit, -540 * Unit)
    /\ ui_state.anim.scale_delta # 0

\* C24: the animation thread never reaches a terminated or panicked state,
\* whatever the holders of the view receiver and the command sender do
\* (stop reading, drop their ends).
C24_ThreadNeverExits == thread_pc \in {"measure", "recv", "publish"}

\* C25: a loop iteration of the animation thread integrates exactly when the
\* time accumulated since the previous step exceeds 1/144 s; the step then
\* receives the whole accumulated time and leaves the accumulator at zero;
\* otherwise the state is not integrated and the accumulator keeps the
\* accumulated time; the other steps of the iteration neither integrate nor
\* touch the accumulator.
C25_StepWhenDue ==
    [][ /\ \A d \in Deltas :
             ThreadMeasure(d) =>
               LET acc == since_last_update + d
               IN IF 144 * acc > TimeUnit
                  THEN /\ ui_state' = update_anim(ui_state, acc)
                       /\ ui_last_t' = acc
                       /\ since_last_update' = 0
                  ELSE /\ ui_state' = ui_state
                       /\ ui_last_t' = ui_last_t
                       /\ since_last_update' = acc
        /\ thread_pc # "measure" =>
             /\ since_last_update' = since_last_update
             /\ ui_last_t' = ui_last_t
             /\ ui_last' # ui_last => ui_last' # "update" ]_vars

\* three iterations of 3 ms each: the first two only accumulate, the third
\* integrates the whole 9 ms and resets the accumulator
C25_Witness ==
    /\ ui_last = "update"
    /\ ui_last_t = 9
    /\ since_last_update = 0
    /\ iters = 2

\* C26: a Pan command leaves each component of view_delta in [-600, 600] and
\* changes nothing but view_delta.
C26_PanClamped ==
    [][\A cmd \in CmdInputs :
          (cmd.kind = "Pan" /\ ApplyCmd(cmd)) =>
             /\ ui_state'.anim.view_delta.x \in (-600 * Unit)..(600 * Unit)
             /\ ui_state'.anim.view_delta.y \in (-600 * Unit)..(600 * Unit)
             /\ ui_state'.view = ui_state.view
             /\ ui_state'.anim.view_const_delta =
                    ui_state.anim.view_const_delta
             /\ ui_state'.anim.scale_delta = ui_state.anim.scale_delta]_vars

\* a Pan of (700, -700) on top of momentum already at the limit, with a
\* zoom momentum and a constant pan present
C26_Witness ==
    /\ ui_last = "Pan"
    /\ ui_state.anim.view_delta = Point(600 * Unit, -600 * Unit)
    /\ ui_state.anim.scale_delta # 0
    /\ ui_state.anim.view_const_delta # Point(0, 0)
    /\ ui_ops = 4

\* ------------------------------------------------------------------------
\* Context properties
\* ------------------------------------------------------------------------

\* C4: as long as load_context_this_frame has stayed false since
\* construction, begin_frame and produce_context calls leave the frame
\* context's map empty.
C4_EmptyUntilFlagged == ~ever_flagged => DOMAIN frame_context = {}

\* frames have run and a producer has been called, the flag never raised
C4_Witness ==
    /\ ~ever_flagged
    /\ init = "Ready"
    /\ last_ctx_op = "produce_context"

\* C5: after a begin_frame that materializes the context, the key set of
\* the frame context equals exactly the set of TypeIds sent by producers
\* since the flag was last raised.
C5_KeysEqualSent ==
    (last_ctx_op = "begin_frame" /\ materialized)
        => DOMAIN frame_context = sent_since_raise

\* the TypeIds of a sequence of channel messages
KeysOf(chan) == { chan[i].key : i \in DOMAIN chan }

\* the value of the last message of the sequence carrying TypeId k
LastVal(chan, k) ==
    LET i == CHOOSE i \in DOMAIN chan :
                 /\ chan[i].key = k
                 /\ \A j \in DOMAIN chan : j > i => chan[j].key # k
    IN chan[i].val

\* C6: when several values with the same TypeId are buffered before one
\* materialization, the frame context afterwards holds one value for that
\* TypeId, the one sent last in channel order.
C6_LastWriteWins ==
    \A k \in KeysOf(drained) :
        /\ k \in DOMAIN frame_context
        /\ frame_context[k] = LastVal(drained, k)

\* a materialization that received two different values for one TypeId
C6_Witness ==
    /\ last_ctx_op = "begin_frame"
    /\ materialized
    /\ \E i, j \in DOMAIN drained :
          /\ i < j
          /\ drained[i].key = drained[j].key
          /\ drained[i].val # drained[j].val

\* C7: show renders a button for a registered action only if every required
\* TypeId is a key of the frame context; an action requiring nothing is
\* always offered; with keys {NodeId} an action requiring {NodeId, PathId}
\* is not offered.
C7_OnlyApplicableOffered ==
    /\ \A o \in offered : o[2] \subseteq DOMAIN frame_context
    /\ (menu_rendered /\ last_ctx_op = "show")
          => \A n \in DOMAIN context_actions :
                context_actions[n] = {} => <<n, {}>> \in offered
    /\ DOMAIN frame_context = {"NodeId"}
          => \A o \in offered : o[2] # {"NodeId", "PathId"}

\* the menu rendered with keys {NodeId}: the actions requiring {} and
\* {NodeId} are offered while one requiring {NodeId, PathId} is registered
C7_Witness ==
    /\ menu_rendered
    /\ DOMAIN frame_context = {"NodeId"}
    /\ "node_path" \in DOMAIN context_actions
    /\ <<"debug", {}>> \in offered
    /\ <<"copy_node_id", {"NodeId"}>> \in offered

\* a step of show, with any input
ShowStep ==
    \E click \in ActionNames \cup {"none"}, close \in BOOLEAN :
        show(click, close)

\* C13: the lifecycle state is Null at construction; a begin_frame moves
\* Null to Initializing, Initializing to Ready and leaves Ready; no other
\* operation changes the state.
C13_LifecycleOrder ==
    /\ init = "Null"
    /\ [][ /\ begin_frame =>
                 \/ init = "Null" /\ init' = "Initializing"
                 \/ init = "Initializing" /\ init' = "Ready"
                 \/ init = "Ready" /\ init' = "Ready"
           /\ ~begin_frame => init' = init ]_vars

\* a frame after the one that materialized has just begun (the third at
\* least): Ready stays Ready
C13_Witness ==
    /\ init = "Ready"
    /\ last_ctx_op = "begin_frame"
    /\ ~materialized
    /\ DOMAIN frame_context = {"NodeId"}
    /\ ~context_menu_open

\* C27: no operation of ContextMgr removes a registered name: the set of
\* registered names only grows; register_action(name, action) leaves
\* exactly the old names and name registered, name bound to the new action
\* (also when the name was already in use) and every other name to the
\* action it had; every other operation leaves the registry as it was.
C27_ActionsStayRegistered ==
    [][ /\ DOMAIN context_actions \subseteq DOMAIN context_actions'
        /\ \A p \in LifecycleRegInputs :
              register_action(p[1], p[2]) =>
                 /\ DOMAIN context_actions' =
                        DOMAIN context_actions \cup {p[1]}
                 /\ context_actions'[p[1]] = p[2]
                 /\ \A n \in DOMAIN context_actions \ {p[1]} :
                        context_actions'[n] = context_actions[n]
        /\ last_ctx_op' # "register_action" =>
              context_actions' = context_actions ]_vars

\* "debug" has been registered a second time with another action since the
\* menu was shown offering it: one name, bound to the later action, and the
\* other registered name is still there
C27_Witness ==
    /\ last_ctx_op = "register_action"
    /\ DOMAIN context_actions = {"debug", "copy_node_id"}
    /\ context_actions["debug"] = {"NodeId"}
    /\ <<"debug", {}>> \in offered

\* C14: show called while the lifecycle state is not Ready does nothing: no
\* action is offered or invoked, and the menu-open flags, the frame context,
\* the producer channel and the lifecycle state are left as they were.
C14_ShowBeforeReadyNoOp ==
    [][ (init # "Ready" /\ ShowStep) =>
            /\ offered' = {}
            /\ invoked' = "none"
            /\ ~menu_rendered'
            /\ UNCHANGED <<load_context_this_frame, context_menu_open,
                           popup_open, frame_context, ctx_chan, init>> ]_vars

\* show was called in Initializing with the popup requested and an action
\* registered that needs nothing
C14_Witness ==
    /\ last_ctx_op = "show"
    /\ init = "Initializing"
    /\ popup_open
    /\ load_context_this_frame
    /\ "debug" \in DOMAIN context_actions
    /\ offered = {}

\* C19: the frame context changes and the producer channel is received
\* from only in a begin_frame that finds the flag set and has the lifecycle
\* state at Ready; such a begin_frame leaves the flag false; and the flag
\* is raised again only by open_context_menu.
C19_MaterializeOnlyWhenFlagged ==
    [][ /\ (frame_context' # frame_context \/ Len(ctx_chan') < Len(ctx_chan))
              => (begin_frame /\ load_context_this_frame /\ init' = "Ready")
        /\ (begin_frame /\ materialized') => ~load_context_this_frame'
        /\ (begin_frame /\ ~load_context_this_frame) => ~materialized'
        /\ (~load_context_this_frame /\ load_context_this_frame')
              => open_context_menu ]_vars

\* a materialization happened, the menu is still open, and the frame that
\* has just begun did not materialize
C19_Witness ==
    /\ last_ctx_op = "begin_frame"
    /\ ~materialized
    /\ DOMAIN frame_context # {}
    /\ context_menu_open
    /\ ~load_context_this_frame

\* C20: produce_context runs its closure and sends the (TypeId, value)
\* pair exactly when load_context_this_frame is true at the call; with the
\* flag false the closure is not run and nothing is sent.
C20_ProducesIffFlagged ==
    [][ \A p \in LifecycleProduceInputs :
           produce_context(p[1], p[2]) =>
              IF load_context_this_frame
              THEN /\ prod_evaluated'
                   /\ ctx_chan' = Append(ctx_chan, [key |-> p[1], val |-> p[2]])
              ELSE /\ ~prod_evaluated'
                   /\ ctx_chan' = ctx_chan ]_vars

\* a producer called after the menu was closed: an earlier value waits in
\* the channel, the later call sent nothing
C20_Witness ==
    /\ last_ctx_op = "produce_context"
    /\ ~prod_evaluated
    /\ ~load_context_this_frame
    /\ Len(ctx_chan) = 1

\* ------------------------------------------------------------------------
\* Script task and modal properties
\* ------------------------------------------------------------------------

\* C3: for one script task the result becomes ready at most once, the first
\* take after readiness returns the value and later attempts return
\* nothing, so one completion is handled by the frame loop exactly once: a
\* finished task not yet handled is still held in the query slot.
C3_HandledOnce ==
    \A t \in Tasks :
        /\ readied[t] <= 1
        /\ handled[t] <= 1
        /\ handled[t] = 1 =>
              /\ script_query # t
              /\ AsyncTake(task_state[t], task_done[t]).result = "none"
        /\ (task_done[t] \in Outcomes /\ handled[t] = 0) => script_query = t

\* the first task was handled and later frames went on to a second task
C3_Witness ==
    /\ handled[1] = 1
    /\ readied[1] = 1
    /\ next_task = 2

\* the status messages that report a failure
FailureMessages == {"Script not found", "Gluon error, see console"}

\* C18: once the result of a script task that ended in an error of any kind
\* has been handled, and until a later result is handled, the status
\* message is a failure message, no NewOverlay message of that task has
\* been sent, and the query slot no longer holds the task.
C18_ErrorsReported ==
    \A t \in Tasks :
        ( /\ handled[t] = 1
          /\ task_done[t] \in Outcomes \ {"Ok"}
          /\ \A u \in Tasks : u > t => handled[u] = 0 )
        => /\ script_error \in FailureMessages
           /\ script_query # t
           /\ \A i \in DOMAIN overlay_chan : overlay_chan[i].task # t

\* a text of decimal digits only
IsNumeral(txt) ==
    /\ txt # <<>>
    /\ txt # NoValue
    /\ \A i \in DOMAIN txt : txt[i] \in {"4", "2"}

\* C9: when the committed text is an unsigned integer n, the awaiting task
\* sends exactly one goto_node(n) if the graph has node n, and no message
\* if it has not.
C9_GotoNodeIffExists ==
    \A r \in Requests :
        (task_pc[r] = "done" /\ IsNumeral(committed[r])) =>
            LET n == DigitsValue(committed[r], 0)
            IN /\ n \in GraphNodes => sent_by[r] = <<n>>
               /\ n \notin GraphNodes => sent_by[r] = <<>>

\* "42" committed: the task has navigated to node 42
C9_Witness ==
    \E r \in Requests :
        /\ task_pc[r] = "done" /\ committed[r] = <<"4", "2">>
        /\ sent_by[r] = <<42>>
        /\ app_chan = <<[kind |-> "goto_node", node |-> 42]>>

\* the order of the steps of one frame
FrameOrder == <<"commands", "tasks", "context", "modal", "view">>

\* the steps of the current frame follow the fixed order
StepsInOrder ==
    /\ Len(frame_steps) <= Len(FrameOrder)
    /\ frame_steps = SubSeq(FrameOrder, 1, Len(frame_steps))

\* C16 (as stated): the steps of a frame run in the order command
\* application, task polling, context materialization, modal render, view
\* read; and when the frame reaches gui.begin_frame, no message enqueued
\* on the app, config or main-view queue while the frame's queues were
\* being drained is still waiting.
C16_FrameOrder ==
    /\ StepsInOrder
    /\ frame_pc = "gui_begin_frame" => left_at_drain_end = NoneLeft

\* C16 (amended): the steps of a frame run in that order; and when the
\* frame reaches gui.begin_frame, every message that a handler run by the
\* frame's drains has sent on the app, config or main-view queue has been
\* applied: all that may still wait is a message a worker task sent after
\* the drain of the app queue.
C16_HandlerMessagesApplied ==
    /\ StepsInOrder
    /\ frame_pc = "gui_begin_frame" =>
          /\ left_at_drain_end.cfg = <<>>
          /\ left_at_drain_end.mv = <<>>
          /\ \A i \in DOMAIN left_at_drain_end.app :
                left_at_drain_end.app[i].kind = "goto_node"

\* the frame is at gui.begin_frame; its handlers sent three messages
\* during the drains and all were applied, while the goto_node message of
\* the task arrived too late for this frame
C16_Witness ==
    /\ frame_pc = "gui_begin_frame"
    /\ enq_by_handlers = 3
    /\ frame_steps = <<"commands">>
    /\ left_at_drain_end.app = <<AppMsg("goto_node", 4)>>
    /\ app_chan = left_at_drain_end.app

\* a text that is no unsigned integer: empty, or with a character that is
\* neither a decimal digit nor a '+' in front of at least one more character
NotU64(txt) ==
    /\ txt # NoValue
    /\ \/ txt = <<>>
       \/ \E i \in DOMAIN txt :
             /\ txt[i] \notin {"4", "2"}
             /\ ~(i = 1 /\ txt[1] = "+" /\ Len(txt) > 1)

C17_MalformedTextDiscarded ==
    \A r \in Requests :
        NotU64(committed[r]) =>
            /\ task_pc[r] = "waiting" => ENABLED TaskResume(r)
            /\ task_pc[r] = "done" =>
                  /\ recv_value[r] = committed[r]
                  /\ sent_by[r] = <<>>
                  /\ Len(app_chan) <=
                        Cardinality({q \in Requests : sent_by[q] # <<>>})

\* "-4" committed: the task received it, finished and sent nothing,
\* although the graph has node 4
C17_Witness ==
    \E r \in Requests :
        /\ committed[r] = <<"-", "4">>
        /\ recv_value[r] = <<"-", "4">>
        /\ task_pc[r] = "done"
        /\ 4 \in GraphNodes
        /\ app_chan = <<>>

\* C23: the task of a pan-to-node invocation takes at most one value out of
\* the result channel, at the step at which it finishes, and sends at most
\* one navigation message, also when more than one value is pushed into the
\* channel; once it has finished it reads and sends nothing more.
C23_TaskReadsOnce ==
    [][\A r \in Requests :
          /\ Len(sent_by'[r]) <= 1
          /\ Len(result_chan'[r]) < Len(result_chan[r]) =>
                /\ task_pc[r] = "waiting"
                /\ task_pc'[r] = "done"
                /\ recv_value'[r] = Head(result_chan[r])
                /\ sent_by'[r] = TaskSends(Head(result_chan[r]))
          /\ task_pc[r] = "done" =>
                /\ task_pc'[r] = "done"
                /\ recv_value'[r] = recv_value[r]
                /\ sent_by'[r] = sent_by[r]]_vars

\* "4" pushed and "42" typed behind it, both nodes of the graph: the task
\* has finished after navigating to node 4 only, and the channel holds
\* nothing for it to read
C23_Witness ==
    \E r \in Requests :
        /\ task_pc[r] = "done"
        /\ recv_value[r] = <<"4">>
        /\ sent_by[r] = <<4>>
        /\ modal_text[r] = <<"4", "2">>
        /\ modal_state[r] = "AwaitingInput"
        /\ result_chan[r] = <<>>
        /\ 42 \in GraphNodes
        /\ app_chan = <<[kind |-> "goto_node", node |-> 4]>>

\* C10: if the modal request is dropped before any value is committed, the
\* task's receive completes with no value and the task ends without
\* sending an application message.
C10_DropCancelsTask ==
    \A r \in Requests :
        modal_state[r] = "Dropped" =>
            /\ task_pc[r] = "waiting" => ENABLED TaskResume(r)
            /\ task_pc[r] = "done" =>
                  /\ recv_value[r] = NoValue
                  /\ sent_by[r] = <<>>

\* a request dropped with text typed, its task finished
C10_Witness ==
    \E r \in Requests :
        /\ modal_state[r] = "Dropped"
        /\ modal_text[r] = <<"4">>
        /\ task_pc[r] = "done"
        /\ app_chan = <<>>

\* C31: open_context_menu while the menu is open leaves the load flag as it
\* is, so the context is materialized at most once between an opening and
\* the next close; close_context_menu lowers both flags, and an
\* open_context_menu on a closed menu raises the load flag.
C31_OneLoadPerOpening ==
    /\ [](loads_this_opening <= 1)
    /\ [][/\ (open_context_menu /\ context_menu_open) =>
                load_context_this_frame' = load_context_this_frame
          /\ close_context_menu =>
                ~load_context_this_frame' /\ ~context_menu_open'
          /\ (open_context_menu /\ ~context_menu_open) =>
                load_context_this_frame' /\ context_menu_open'
         ]_vars

\* the menu was opened, its context materialized, and open_context_menu
\* called again on the open menu: the flag is still lowered
C31_Witness ==
    /\ loads_this_opening = 1
    /\ last_ctx_op = "open_context_menu"
    /\ context_menu_open
    /\ ~load_context_this_frame

\* C32: whenever load_context_this_frame is false (and no produce_context
\* call is in progress: the calls of this model are atomic) the producer
\* channel is empty, so that no value sent for one opening waits in the
\* channel for the materialization of a later opening.
C32_NoValueLeftBuffered ==
    ~load_context_this_frame => ctx_chan = <<>>

\* the script tasks submitted and not yet handled
Outstanding == { t \in 1..next_task : handled[t] = 0 }

\* C33: OverlayCreator has at most one outstanding script task, the one in
\* the query slot; a frame with a click while the slot holds a task
\* submits nothing, and a frame submits a task only when the slot is empty
\* and the result of every earlier task has been taken.
C33_OneOutstandingTask ==
    /\ [](/\ Cardinality(Outstanding) <= 1
          /\ \A t \in Outstanding : script_query = t)
    /\ [][/\ (script_query # 0 /\
                \E typed \in BOOLEAN, hovered \in BOOLEAN :
                  OverlayCreatorUi(TRUE, typed, hovered, "running"))
               => next_task' = next_task
          /\ next_task' # next_task =>
               /\ script_query = 0
               /\ Outstanding = {}
               /\ \A t \in 1..next_task : task_state[t] = "Taken"
         ]_vars

\* the second task was submitted after the first one's result was taken,
\* and has finished on its worker without having been handled yet
C33_Witness ==
    /\ next_task = 2
    /\ handled = [t \in Tasks |-> IF t = 1 THEN 1 ELSE 0]
    /\ script_query = 2
    /\ task_done[2] \in Outcomes

\* the NewOverlay messages of task t sent so far on the overlay channel
\* (nothing receives from it while the tasks are explored alone)
OverlaysOf(t) == { i \in DOMAIN overlay_chan : overlay_chan[i].task = t }

\* C34: a script task that completed successfully has exactly one
\* NewOverlay message once its result has been seen ready, sent in the
\* frame that first saw it ready, and never a second one; a task still
\* pending has none.
C34_OneOverlayPerSuccess ==
    /\ [](\A t \in Tasks :
            /\ task_done[t] = "Ok" =>
                  /\ Cardinality(OverlaysOf(t)) = readied[t]
                  /\ readied[t] <= 1
            /\ task_done[t] \notin Outcomes => OverlaysOf(t) = {})
    /\ [][\A t \in Tasks :
            /\ (task_done'[t] = "Ok" /\ readied'[t] = readied[t] + 1) =>
                  overlay_chan' =
                     Append(overlay_chan, [task |-> t, name |-> "n"])
                  \/ overlay_chan' =
                     Append(overlay_chan,
                            [task |-> t, name |-> creator_name])
            /\ (task_done'[t] = "Ok" /\ readied'[t] = readied[t]) =>
                  OverlaysOf(t)' = OverlaysOf(t)
         ]_vars

\* the first task succeeded and sent its one message; later frames ran
\* with a second task submitted and still pending
C34_Witness ==
    /\ task_done[1] = "Ok"
    /\ Cardinality(OverlaysOf(1)) = 1
    /\ Len(overlay_chan) = 1
    /\ script_query = 2
    /\ task_done[2] = "running"

\* C35: apply_action runs the effect and returns Some(()) exactly when
\* every required TypeId of the action is a key of the context; otherwise
\* it returns None and the effect does not run, so that no effect unwraps
\* a value the context lacks.
C35_EffectIffApplicable ==
    [][\A a \in ApplyInputs :
          apply_action(a[1], a[2]) =>
             LET has == a[2] \subseteq DOMAIN frame_context
             IN /\ apply_result'.ret = "Some" <=> has
                /\ apply_result'.ran <=> has
                /\ ~has => apply_result'.ret = "None"
                /\ ~apply_result'.panicked
      ]_vars

\* copy_node_id applied to a materialized context without a NodeId: None
\* came back and the effect did not run
C35_Witness ==
    /\ apply_result = [name |-> "copy_node_id", ret |-> "None",
                       ran |-> FALSE, panicked |-> FALSE]
    /\ materialized
    /\ "NodeId" \notin DOMAIN frame_context

\* the positions of the entries of one kind in the last drain
DrainedOf(kind) == { i \in DOMAIN last_drain : last_drain[i].kind = kind }

\* the largest element of a non-empty set of positions
LastOf(S) == CHOOSE i \in S : \A j \in S : j <= i

\* C36: after recv_contexts, node, path and selection_nodes are present
\* exactly when an entry of that kind was received in this drain, each
\* holds the last entry of its kind, and has_selection is true exactly
\* when selection_nodes is present.
C36_SnapshotReplaced ==
    /\ contexts.node =
          IF DrainedOf("Node") = {} THEN {}
          ELSE { last_drain[LastOf(DrainedOf("Node"))].id }
    /\ contexts.path =
          IF DrainedOf("Path") = {} THEN {}
          ELSE { last_drain[LastOf(DrainedOf("Path"))].id }
    /\ contexts.selection_nodes =
          IF DrainedOf("Selection") = {} THEN {}
          ELSE { last_drain[LastOf(DrainedOf("Selection"))].nodes }
    /\ contexts.has_selection <=> contexts.selection_nodes # {}

\* a drain that received two nodes and no selection: the node is the
\* later one and no selection is present, while a selection sent after
\* the drain waits in the channel
C36_Witness ==
    /\ last_drain = <<NodeEntry(1), NodeEntry(2)>>
    /\ contexts = [node |-> {2}, path |-> {}, has_selection |-> FALSE,
                   selection_nodes |-> {}]
    /\ menu_rx = <<SelectionEntry({1})>>

\* the slots that show the page of pl: the paths page_start + 1 .. page_end
\* of its current page, then None
SlotsOfPage(pl) ==
    LET start == PageStart(pl.page, pl.page_size, pl.n)
        end   == PageEnd(pl.page, pl.page_size, pl.n)
    IN [i \in DOMAIN pl.slots |-> IF i <= end - start THEN start + i ELSE 0]

\* C37: after a page change of the path list (by a message or by a click)
\* followed by a ui frame, the slots hold exactly the paths of the current
\* page.
C37_SlotsFollowPage ==
    [][(path_list.built /\ page_changed /\ PathListUi("none"))
          => path_list'.slots = SlotsOfPage(path_list')]_vars

\* C38: after any sequence of LayoutFlags operations on the same buffer,
\* starting from an empty selection and a zeroed buffer, the buffer holds
\* 1 at index i exactly when node i + 1 is in the latest selection, and 0
\* elsewhere.
C38_BufferMirrorsSelection ==
    \A ix \in DOMAIN buffer :
        buffer[ix] = IF (ix + 1) \in latest_selection THEN 1 ELSE 0

\* C39: when the write lock cannot be acquired, add_select_one and
\* update_selection return the error and leave the latest selection
\* unchanged.
C39_FailedCallKeepsSelection ==
    [][(/\ \/ \E node \in Nodes : add_select_one(node, TRUE)
           \/ \E new_selection \in SUBSET Nodes :
                 update_selection(new_selection, TRUE)
        /\ ~flags_last'.ok)
          => latest_selection' = latest_selection]_vars

====
